---- MODULE Spec2Model ----
(***************************************************************************)
(* Zoxc/stateful: a compiler plugin that turns a function body with        *)
(* suspension points (yield_!) into a control-flow graph of basic blocks   *)
(* (mar::build) and then into a resumable state machine (mar::translate).  *)
(*                                                                         *)
(* The model holds                                                         *)
(*   - the syntax tree of the functions of one batch,                      *)
(*   - the builder of mar::build (construct, Builder::expr, stmt, local),  *)
(*   - the older graph builder of src/cfg.rs (CFGBuilder),                 *)
(*   - the synthesized machine: Wrapper::next around the transition        *)
(*     closure `loop { match state { arms } }`,                            *)
(*   - a direct, non-suspending execution of the original body, which is   *)
(*     the reference the machine is compared with.                         *)
(***************************************************************************)
EXTENDS Integers, Sequences, FiniteSets, TLC

(***************************************************************************)
(* Bounds of the model.                                                    *)
(***************************************************************************)
\* nodes of a generated function body
MaxSize == 2
\* driver invocations of one machine
MaxInvocations == 4
\* transition arms one invocation may execute before it counts as hung
MaxArms == 24
\* statements the direct execution may execute before it counts as diverging
DirectFuel == 40
\* nodes of a generated tree with `for`, `if let` and `while let`
MaxSugarSize == 3
\* times the rewrite of `for`, `if let` and `while let` is applied to one tree
MaxPasses == 3

(***************************************************************************)
(* Syntax trees (syntax::ast).  One record shape for every statement:      *)
(*   k      the kind of the statement                                      *)
(*   name   the bound name of a let, the variable of `x -= 1`, the label   *)
(*          of a loop / break / continue ("" when there is none)           *)
(*   ex     initializer, yielded value, or condition                       *)
(*   body   then-block, loop body or block                                 *)
(*   els    else-block, hasElse says whether there is one                  *)
(*   id     number of an opaque call statement                             *)
(*   pat    the pattern of a `for`, `if let`, `while let`, or of the first *)
(*          arm of a two-armed match; pat2 the pattern of the second arm   *)
(*   mut    a `let mut`                                                    *)
(* An expression is a literal (v = "") or a path to a local, or a call     *)
(* (f # ""): v is then its text, f the function or method called and a, n  *)
(* the local or literal it is called with.                                 *)
(***************************************************************************)
Lit(n) == [v |-> "", n |-> n, f |-> "", a |-> ""]

Var(x) == [v |-> x, n |-> 0, f |-> "", a |-> ""]

\* the suspension marker in expression position: `yield_!(n)`, and for the
\* older builder, whose marker is `return <value>`, the expression `return n`
YieldIn(n) == [v |-> "yield_!", n |-> n, f |-> "", a |-> ""]

NoLabel == ""

Node(k, name, ex, body, els, hasElse, id) ==
    [k |-> k, name |-> name, ex |-> ex, body |-> body, els |-> els,
     hasElse |-> hasElse, id |-> id, pat |-> "", pat2 |-> "", mut |-> FALSE]

\* `f<id>();` an opaque call, observable through the execution log
Nop(id) == Node("nop", NoLabel, Lit(0), <<>>, <<>>, FALSE, id)

\* `x -= 1;` (saturating at 0), an opaque statement with an effect on a local
Dec(x) == Node("dec", x, Lit(0), <<>>, <<>>, FALSE, 0)

\* `let x = e;`
Let(x, e) == Node("let", x, e, <<>>, <<>>, FALSE, 0)

\* `let mut x = e;`
LetMut(x, e) == [Let(x, e) EXCEPT !.mut = TRUE]

\* `let x;`
LetUninit(x) == Node("letu", x, Lit(0), <<>>, <<>>, FALSE, 0)

\* `yield_!(e);`
Yield(e) == Node("yield", NoLabel, e, <<>>, <<>>, FALSE, 0)

\* `if c { body }`
If(c, body) == Node("if", NoLabel, c, body, <<>>, FALSE, 0)

\* `if c { body } else { els }`
IfElse(c, body, els) == Node("if", NoLabel, c, body, els, TRUE, 0)

\* `'label: loop { body }`
Loop(label, body) == Node("loop", label, Lit(0), body, <<>>, FALSE, 0)

\* `'label: while c { body }`
While(label, c, body) == Node("while", label, c, body, <<>>, FALSE, 0)

\* `{ body }`
Block(body) == Node("block", NoLabel, Lit(0), body, <<>>, FALSE, 0)

\* `break 'label;`
Break(label) == Node("break", label, Lit(0), <<>>, <<>>, FALSE, 0)

\* `continue 'label;`
Continue(label) == Node("continue", label, Lit(0), <<>>, <<>>, FALSE, 0)

\* `e;` an expression statement without effect
ExprStmt(e) == Node("expr", NoLabel, e, <<>>, <<>>, FALSE, 0)

\* `f<id>(|| { body });` a call that is handed a closure
CallClosure(id, body) == Node("closure", NoLabel, Lit(0), body, <<>>, FALSE, id)

\* `let x = <init>;` whose initializer is a block-like expression (if, loop,
\* block); its value is the unit value, written 0
LetC(x, init) == Node("let", x, Lit(0), <<init>>, <<>>, FALSE, 0)

\* `return;`
Ret == Node("ret", NoLabel, Lit(0), <<>>, <<>>, FALSE, 0)

\* `return e;`
RetVal(e) == Node("retv", NoLabel, e, <<>>, <<>>, FALSE, 0)

\* `'label: for pat in e { body }`
ForLoop(label, pat, e, body) ==
    [Node("for", label, e, body, <<>>, FALSE, 0) EXCEPT !.pat = pat]

\* `if let pat = e { body }`
IfLet(pat, e, body) ==
    [Node("iflet", NoLabel, e, body, <<>>, FALSE, 0) EXCEPT !.pat = pat]

\* `if let pat = e { body } else { els }`
IfLetElse(pat, e, body, els) ==
    [Node("iflet", NoLabel, e, body, els, TRUE, 0) EXCEPT !.pat = pat]

\* `'label: while let pat = e { body }`
WhileLet(label, pat, e, body) ==
    [Node("whilelet", label, e, body, <<>>, FALSE, 0) EXCEPT !.pat = pat]

\* `match e { pat => { body }, pat2 => { els } }`
Match(e, pat, body, pat2, els) ==
    [Node("match", NoLabel, e, body, els, TRUE, 0) EXCEPT !.pat = pat,
                                                          !.pat2 = pat2]

IsLoopKind(k) == k \in {"loop", "while"}

(***************************************************************************)
(* Direct execution of a body: the reference semantics of the original     *)
(* control flow.  Locals are a list of bindings, innermost last; a block   *)
(* drops the bindings it made when it ends.  An execution stopped at a     *)
(* suspension point keeps the bindings that are in scope at that point.    *)
(***************************************************************************)
RECURSIVE LookupIdx(_, _, _)
LookupIdx(env, x, i) ==
    IF i = 0 THEN 0
    ELSE IF env[i].name = x THEN i
    ELSE LookupIdx(env, x, i - 1)

Bound(env, x) == LookupIdx(env, x, Len(env)) # 0

Unbound == -1

Lookup(env, x) ==
    LET i == LookupIdx(env, x, Len(env))
    IN  IF i = 0 THEN Unbound ELSE env[i].val

\* the local an expression reads ("" when it reads none)
ExprVar(e) == IF e.f = "" THEN e.v ELSE e.a

\* the value of an expression.  An iterable is a number n, the iterator that
\* yields n, n - 1, ..., 1: IntoIterator::into_iter returns it as it is (the
\* conversion of an iterator is the iterator); the call of next() is
\* evaluated where it stands, as the discriminant of a match
Eval(e, env) == IF ExprVar(e) = "" THEN e.n ELSE Lookup(env, ExprVar(e))

Bind(env, x, val) == Append(env, [name |-> x, val |-> val])

Assign(env, x, val) ==
    LET i == LookupIdx(env, x, Len(env))
    IN  IF i = 0 THEN env ELSE [env EXCEPT ![i].val = val]

\* The state of an execution: locals, the values produced at suspension
\* points, the opaque calls executed, and how the last statement ended.
ExecState(env, fuel, limit) ==
    [env |-> env, outs |-> <<>>, log |-> <<>>, sig |-> "ok", lbl |-> NoLabel,
     fuel |-> fuel, limit |-> limit]

RECURSIVE ExecStmts(_, _, _), ExecStmt(_, _), ExecLoop(_, _),
          ExecLoopTurn(_, _), ExecFor(_, _, _), ExecForTurn(_, _, _)

\* the end of a block: the bindings the block made are dropped; n bindings
\* were there before it
ExecBlockEnd(r2, n) ==
    IF r2.sig = "paused" THEN r2
    ELSE [r2 EXCEPT !.env = SubSeq(r2.env, 1, n)]

ExecBlock(ss, r) == ExecBlockEnd(ExecStmts(ss, 1, r), Len(r.env))

\* `let x = <compound expression>;`: the binding, once the expression ended
ExecLetEnd(r2, x) ==
    IF r2.sig = "ok" THEN [r2 EXCEPT !.env = Bind(@, x, 0)] ELSE r2

\* one turn of a loop is over: r2 is the execution after the body
ExecLoopTurn(s, r2) ==
    LET mine == r2.lbl = NoLabel \/ r2.lbl = s.name
    IN  CASE r2.sig = "ok" -> ExecLoop(s, r2)
          [] r2.sig = "break" /\ mine -> [r2 EXCEPT !.sig = "ok", !.lbl = NoLabel]
          [] r2.sig = "continue" /\ mine ->
                ExecLoop(s, [r2 EXCEPT !.sig = "ok", !.lbl = NoLabel])
          [] OTHER -> r2

ExecStmts(ss, i, r) ==
    IF i > Len(ss) \/ r.sig # "ok" THEN r
    ELSE ExecStmts(ss, i + 1, ExecStmt(ss[i], r))

\* the local a statement itself reads ("" when it reads none)
NeedVar(s) ==
    CASE s.k \in {"yield", "if", "while", "expr", "for"} -> ExprVar(s.ex)
      [] s.k = "let" /\ s.body = <<>> -> ExprVar(s.ex)
      [] s.k = "dec" -> s.name
      [] OTHER -> ""

ExecStmt(s, r) ==
    IF r.fuel = 0 THEN [r EXCEPT !.sig = "diverge"]
    ELSE IF NeedVar(s) # "" /\ ~Bound(r.env, NeedVar(s))
    THEN [r EXCEPT !.sig = "unbound"]
    ELSE
    LET r1 == [r EXCEPT !.fuel = @ - 1] IN
    CASE s.k = "nop" -> [r1 EXCEPT !.log = Append(@, s.id)]
      [] s.k = "expr" -> r1
      [] s.k = "dec" ->
            LET old == Lookup(r1.env, s.name)
            IN  [r1 EXCEPT !.env = Assign(@, s.name, IF old > 0 THEN old - 1 ELSE 0)]
      [] s.k = "let" ->
            IF s.body = <<>>
            THEN [r1 EXCEPT !.env = Bind(@, s.name, Eval(s.ex, r1.env))]
            ELSE ExecLetEnd(ExecStmt(s.body[1], r1), s.name)
      [] s.k = "letu" -> [r1 EXCEPT !.env = Bind(@, s.name, Unbound)]
      [] s.k = "yield" ->
            LET o == Append(r1.outs, Eval(s.ex, r1.env))
            IN  [r1 EXCEPT !.outs = o,
                           !.sig = IF Len(o) = r1.limit THEN "paused" ELSE "ok"]
      [] s.k = "if" ->
            IF Eval(s.ex, r1.env) # 0 THEN ExecBlock(s.body, r1)
            ELSE IF s.hasElse THEN ExecBlock(s.els, r1)
            ELSE r1
      [] s.k = "block" -> ExecBlock(s.body, r1)
      [] IsLoopKind(s.k) -> ExecLoop(s, r1)
      [] s.k = "for" -> ExecFor(s, r1, Eval(s.ex, r1.env))
      [] s.k = "break" -> [r1 EXCEPT !.sig = "break", !.lbl = s.name]
      [] s.k = "continue" -> [r1 EXCEPT !.sig = "continue", !.lbl = s.name]
      [] s.k \in {"ret", "retv"} -> [r1 EXCEPT !.sig = "return"]

\* one turn of a `for` is over: r2 is the execution after the body, iter the
\* iterator after the turn
ExecForTurn(s, r2, iter) ==
    LET mine == r2.lbl = NoLabel \/ r2.lbl = s.name
    IN  CASE r2.sig = "ok" -> ExecFor(s, r2, iter)
          [] r2.sig = "break" /\ mine -> [r2 EXCEPT !.sig = "ok", !.lbl = NoLabel]
          [] r2.sig = "continue" /\ mine ->
                ExecFor(s, [r2 EXCEPT !.sig = "ok", !.lbl = NoLabel], iter)
          [] OTHER -> r2

\* `for pat in e { body }`, iter the iterator: each value it yields is bound
\* to the pattern for one turn of the body
ExecFor(s, r, iter) ==
    IF r.fuel = 0 THEN [r EXCEPT !.sig = "diverge"]
    ELSE IF iter <= 0 THEN r
    ELSE ExecForTurn(s,
            ExecBlockEnd(ExecStmts(s.body, 1,
                                   [r EXCEPT !.fuel = @ - 1,
                                             !.env = Bind(@, s.pat, iter)]),
                         Len(r.env)),
            iter - 1)

ExecLoop(s, r) ==
    IF r.fuel = 0 THEN [r EXCEPT !.sig = "diverge"]
    ELSE IF s.k = "while" /\ Eval(s.ex, r.env) = 0 THEN r
    ELSE ExecLoopTurn(s, ExecBlock(s.body, [r EXCEPT !.fuel = @ - 1]))

\* The function has one parameter, x.
ParamEnv(arg) == <<[name |-> "x", val |-> arg]>>

\* Direct execution of a whole body, stopped after `limit` values (0: never).
Direct(body, arg, limit) ==
    ExecStmts(body, 1, ExecState(ParamEnv(arg), DirectFuel, limit))

(***************************************************************************)
(* The transition detector (smir/build/transition.rs).  The visitor walks  *)
(* the whole subtree with one fixed inside_loop flag: it neither sets the  *)
(* flag when it enters a loop of the subtree nor clears it.                *)
(***************************************************************************)
\* visit_expr on an operand: ExprMac with the path of the suspension marker
ExprHasTransition(e) == e.v = "yield_!"

RECURSIVE ContainsTransition(_, _), AnyTransition(_, _, _)

\* visit_block: some statement of ss[i..] contains a transition
AnyTransition(ss, i, inside_loop) ==
    IF i > Len(ss) THEN FALSE
    ELSE ContainsTransition(ss[i], inside_loop)
            \/ AnyTransition(ss, i + 1, inside_loop)

\* visit_stmt / visit_expr; every other node, a closure among them, is walked
\* by walk_stmt / walk_expr: the visitor overrides neither visit_fn nor
\* visit_item, so the walk goes on into the body of a closure
ContainsTransition(s, inside_loop) ==
    CASE s.k = "yield" -> TRUE
      [] s.k = "retv" -> TRUE
      [] s.k = "break" -> inside_loop
      [] s.k = "continue" -> inside_loop
      [] OTHER -> ExprHasTransition(s.ex)
                    \/ AnyTransition(s.body, 1, inside_loop)
                    \/ AnyTransition(s.els, 1, inside_loop)

(***************************************************************************)
(* The intermediate representation (mar/repr.rs).                          *)
(***************************************************************************)
START_BLOCK == 0

END_BLOCK == 1

\* Terminator; k = "None" is a block whose terminator is not set yet
Term(k, target, target2, ex) ==
    [k |-> k, target |-> target, target2 |-> target2, ex |-> ex,
     pat |-> "", pat2 |-> ""]

NoTerminator == Term("None", 0, 0, Lit(0))

Goto(target) == Term("Goto", target, 0, Lit(0))

TermIf(cond, then_block, else_block) == Term("If", then_block, else_block, cond)

\* Match { discr, targets } with two arms, each a pattern and a block
TermMatch(discr, pat, block, pat2, block2) ==
    [Term("Match", block, block2, discr) EXCEPT !.pat = pat, !.pat2 = pat2]

TermReturn == Term("Return", 0, 0, Lit(0))

Suspend(rvalue, target) == Term("Suspend", target, 0, rvalue)

Await(target) == Term("Await", target, 0, Lit(0))

\* Terminator::successors
Successors(term) ==
    CASE term.k \in {"Goto", "Suspend", "Await"} -> {term.target}
      [] term.k \in {"If", "Match"} -> {term.target, term.target2}
      [] OTHER -> {}

\* Statement; stmt is the opaque statement of an Expr and the initializer
\* expression of a Let or Unshadow
StmtRec(k, stmt, pat, decl) ==
    [k |-> k, stmt |-> stmt, pat |-> pat, decl |-> decl]

StatementExpr(stmt) == StmtRec("Expr", stmt, "", 0)

StatementLet(pat, init) == StmtRec("Let", init, pat, 0)

StatementUnshadow(pat, init) == StmtRec("Unshadow", init, pat, 0)

StatementDrop(decl) == StmtRec("Drop", Nop(0), "", decl)

\* BasicBlockData::new
BasicBlockData(name, decls) ==
    [name |-> name, decls |-> decls, statements |-> <<>>,
     terminator |-> NoTerminator]

(***************************************************************************)
(* The builder of mar::build.  A builder value is the struct Builder plus  *)
(*   ret   the value the last builder method returned (a block, an extent) *)
(*   err   the message of the span_fatal / span_bug / panic that ended the *)
(*         construction ("" while it is running)                           *)
(* Blocks, declarations and extents are numbered from 0 as in the source;  *)
(* the sequences that hold them are indexed from 1.                        *)
(***************************************************************************)
Fail(b, msg) == IF b.err = "" THEN [b EXCEPT !.err = msg] ELSE b

Returning(b, v) == [b EXCEPT !.ret = v]

BlockData(b, block) == b.basic_blocks[block + 1]

DeclIdent(b, decl) == b.var_decls[decl + 1].ident

\* fault: the alias of a shadowed declaration is the name itself
ShadowedIdent_SameName(ident, decl) == ident

\* format!("{}_shadowed_{}", lvalue, decl.index())
ShadowedIdent(ident, decl) == ident \o "_shadowed_" \o ToString(decl)

\* cfg.push
Push(b, block, statement) ==
    IF b.err # "" THEN b
    ELSE [b EXCEPT !.basic_blocks[block + 1].statements = Append(@, statement)]

\* Builder::terminate
Terminate(b, block, kind) ==
    IF b.err # "" THEN b
    ELSE IF BlockData(b, block).terminator.k # "None"
    THEN Fail(b, "terminate: block already has a terminator set")
    ELSE [b EXCEPT !.basic_blocks[block + 1].terminator = kind]

RECURSIVE AllDrops(_, _)
\* the scheduled declarations of scopes[i..], outermost scope first
AllDrops(scopes, i) ==
    IF i > Len(scopes) THEN <<>>
    ELSE scopes[i].drops \o AllDrops(scopes, i + 1)

\* Builder::find_live_decls: the declarations of the open scopes; a
\* declaration shadowed by a later one of the same name goes by its alias
FindLiveDecls(b) ==
    LET L == AllDrops(b.scopes, 1)
    IN  [i \in 1..Len(L) |->
            LET ident == DeclIdent(b, L[i].decl)
            IN  [decl |-> L[i].decl,
                 ident |-> IF \E j \in (i + 1)..Len(L) :
                                  DeclIdent(b, L[j].decl) = ident
                           THEN ShadowedIdent(ident, L[i].decl)
                           ELSE ident]]

\* Builder::find_decl: the innermost live declaration of a name, -1 if none
FindDecl(b, ident) ==
    LET L    == AllDrops(b.scopes, 1)
        hits == {i \in 1..Len(L) : DeclIdent(b, L[i].decl) = ident}
    IN  IF hits = {} THEN -1
        ELSE L[CHOOSE i \in hits : \A j \in hits : j <= i].decl

\* fault: a new block that leaves out the innermost live declaration
StartNewBlock_WithoutInnermost(b, name) ==
    IF b.err # "" THEN b
    ELSE LET live == FindLiveDecls(b)
         IN  [b EXCEPT
                !.basic_blocks =
                    Append(@, BasicBlockData(name, SubSeq(live, 1, Len(live) - 1))),
                !.ret = Len(b.basic_blocks)]

\* Builder::start_new_block
StartNewBlock(b, name) ==
    IF b.err # "" THEN b
    ELSE [b EXCEPT
            !.basic_blocks = Append(@, BasicBlockData(name, FindLiveDecls(b))),
            !.ret = Len(b.basic_blocks)]

\* Builder::start_new_extent
StartNewExtent(b) ==
    IF b.err # "" THEN b
    ELSE [b EXCEPT !.extents = Append(@, "Misc"), !.ret = Len(b.extents)]

\* Builder::push_scope
PushScope(b, extent) ==
    IF b.err # "" THEN b
    ELSE [b EXCEPT !.scopes = Append(@, [extent |-> extent, drops |-> <<>>])]

RECURSIVE DropDecls(_, _, _, _)
\* the drop and unshadow statements of one scope, last declaration first
DropDecls(b, block, drops, i) ==
    IF i = 0 THEN b
    ELSE LET d  == drops[i]
             b1 == Push(b, block, StatementDrop(d.decl))
             b2 == IF d.alias = "" THEN b1
                   ELSE Push(b1, block,
                             StatementUnshadow(DeclIdent(b, d.decl),
                                               ExprStmt(Var(d.alias))))
         IN  DropDecls(b2, block, drops, i - 1)

\* Builder::pop_scope
PopScope(b, extent, block) ==
    IF b.err # "" THEN b
    ELSE IF b.scopes = <<>> \/ b.scopes[Len(b.scopes)].extent # extent
    THEN Fail(b, "pop_scope: extent mismatch")
    ELSE LET scope == b.scopes[Len(b.scopes)]
             b1    == DropDecls(b, block, scope.drops, Len(scope.drops))
         IN  [b1 EXCEPT !.scopes = SubSeq(@, 1, Len(@) - 1)]

\* Builder::schedule_drop
ScheduleDrop(b, extent, decl, alias) ==
    IF b.err # "" THEN b
    ELSE LET hits == {i \in 1..Len(b.scopes) : b.scopes[i].extent = extent}
         IN  IF hits = {} THEN Fail(b, "extent not in scope to drop")
             ELSE LET i == CHOOSE i \in hits : \A j \in hits : j <= i
                  IN  [b EXCEPT !.scopes[i].drops =
                                    Append(@, [decl |-> decl, alias |-> alias])]

RECURSIVE ExitDrops(_, _, _, _)
\* the drops and unshadows of scopes[i..top], innermost scope first
ExitDrops(b, block, i, top) ==
    IF top < i THEN b
    ELSE LET scope == b.scopes[top]
         IN  ExitDrops(DropDecls(b, block, scope.drops, Len(scope.drops)),
                       block, i, top - 1)

\* Builder::exit_scope: leave the scopes opened inside `extent`, jump to target
ExitScope(b, extent, block, target) ==
    IF b.err # "" THEN b
    ELSE LET hits == {i \in 1..Len(b.scopes) : b.scopes[i].extent = extent}
         IN  IF hits = {} THEN Fail(b, "extent does not enclose")
             ELSE LET i  == CHOOSE i \in hits : \A j \in hits : j <= i
                      b1 == ExitDrops(b, block, i + 1, Len(b.scopes))
                  IN  Terminate(b1, block, Goto(target))

\* fault: a jump without label is resolved to the outermost open loop
FindLoopScope_Outermost(b, label) ==
    LET hits == {i \in 1..Len(b.loop_scopes) :
                    label = NoLabel \/ b.loop_scopes[i].label = label}
    IN  IF hits = {} THEN 0
        ELSE IF label = NoLabel THEN 1
        ELSE CHOOSE i \in hits : \A j \in hits : j <= i

\* Builder::find_loop_scope: the index in loop_scopes, 0 if there is none
FindLoopScope(b, label) ==
    LET hits == {i \in 1..Len(b.loop_scopes) :
                    label = NoLabel \/ b.loop_scopes[i].label = label}
    IN  IF hits = {} THEN 0
        ELSE CHOOSE i \in hits : \A j \in hits : j <= i

\* Builder::is_inside_loop
IsInsideLoop(b) == b.loop_scopes # <<>>

\* Builder::contains_transition
BuilderContainsTransition(b, s) == ContainsTransition(s, IsInsideLoop(b))

(***************************************************************************)
(* The rewrites of `for`, `if let` and `while let` (mar/build/expr.rs).    *)
(* Builder::expr rewrites the expression it is called with and calls       *)
(* itself with the result.                                                 *)
(***************************************************************************)
\* a call with one argument, a method call without arguments
CallExpr(path, arg) ==
    [v |-> path \o "(" \o (IF arg.v = "" THEN ToString(arg.n) ELSE arg.v) \o ")",
     n |-> arg.n, f |-> path, a |-> arg.v]

MethodCall(receiver, method) ==
    [v |-> receiver \o "." \o method \o "()", n |-> 0, f |-> method,
     a |-> receiver]

\* ExprKind::ForLoop:
\* { let mut __stateful_iter = ::std::iter::IntoIterator::into_iter($expr);
\*   'label: loop { match __stateful_iter.next() {
\*       ::std::option::Option::Some($pat) => $loop_block,
\*       ::std::option::Option::None => break, } } }
DesugarForLoop_ConvertsEachTurn(s) ==
    LET into_iter  == CallExpr("::std::iter::IntoIterator::into_iter", s.ex)
        iter_next  == MethodCall("__stateful_iter", "next")
        some_pat   == "::std::option::Option::Some(" \o s.pat \o ")"
        none_pat   == "::std::option::Option::None"
        match_expr == Match(iter_next, some_pat, s.body, none_pat,
                            <<Break(NoLabel)>>)
        iter       == LetMut("__stateful_iter", into_iter)
    IN  Block(<<Loop(s.name, <<iter, match_expr>>)>>)

DesugarForLoop(s) ==
    LET into_iter  == CallExpr("::std::iter::IntoIterator::into_iter", s.ex)
        iter_next  == MethodCall("__stateful_iter", "next")
        some_pat   == "::std::option::Option::Some(" \o s.pat \o ")"
        none_pat   == "::std::option::Option::None"
        match_expr == Match(iter_next, some_pat, s.body, none_pat,
                            <<Break(NoLabel)>>)
        loop_      == Loop(s.name, <<match_expr>>)
        iter       == LetMut("__stateful_iter", into_iter)
    IN  Block(<<iter, loop_>>)

\* ExprKind::IfLet: match $expr { $pat => $then_block, _ => $else_block }
DesugarIfLet(s) ==
    Match(s.ex, s.pat, s.body, "_", IF s.hasElse THEN s.els ELSE <<>>)

\* ExprKind::WhileLet:
\* 'label: loop { match $expr { $pat => $body_block, _ => break, } }
DesugarWhileLet(s) ==
    Loop(s.name, <<Match(s.ex, s.pat, s.body, "_", <<Break(NoLabel)>>)>>)

IsSugarKind(k) == k \in {"for", "iflet", "whilelet"}

\* the three rewriting arms of Builder::expr
DesugarExpr(s) ==
    CASE s.k = "for" -> DesugarForLoop(s)
      [] s.k = "iflet" -> DesugarIfLet(s)
      [] s.k = "whilelet" -> DesugarWhileLet(s)
      [] OTHER -> s

RECURSIVE Desugar_ChildrenFirst(_, _)
\* fault: the subtrees are rewritten first, under the loops of the tree as
\* it was written, and the root after them
Desugar_ChildrenFirst(s, inside_loop) ==
    LET inner == inside_loop \/ IsLoopKind(s.k)
        s1    == [s EXCEPT
                    !.body = [i \in 1..Len(s.body) |->
                                Desugar_ChildrenFirst(s.body[i], inner)],
                    !.els = [i \in 1..Len(s.els) |->
                                Desugar_ChildrenFirst(s.els[i], inner)]]
    IN  IF ContainsTransition(s1, inside_loop) THEN DesugarExpr(s1) ELSE s1

RECURSIVE Desugar(_, _)
\* the tree Builder::expr translates in place of s: an expression without
\* transition is left as it is; a `for`, `if let` or `while let` is
\* rewritten and the result looked at again; the statements of the blocks
\* of any other expression are rewritten in turn, those of a loop body with
\* the loop open
Desugar(s, inside_loop) ==
    IF ~ContainsTransition(s, inside_loop) THEN s
    ELSE IF IsSugarKind(s.k) THEN Desugar(DesugarExpr(s), inside_loop)
    ELSE LET inner == inside_loop \/ IsLoopKind(s.k)
         IN  [s EXCEPT
                !.body = [i \in 1..Len(s.body) |-> Desugar(s.body[i], inner)],
                !.els = [i \in 1..Len(s.els) |-> Desugar(s.els[i], inner)]]

\* the rewrite applied to the statements of a function body
DesugarBody(body) == [i \in 1..Len(body) |-> Desugar(body[i], FALSE)]

(***************************************************************************)
(* Translation of statements and expressions into blocks                   *)
(* (mar/build/stmt.rs, mar/build/expr.rs).                                 *)
(***************************************************************************)
RECURSIVE ExprIsEmpty(_)
\* expr_is_empty / stmt_is_empty: a block expression of empty statements
ExprIsEmpty(s) ==
    s.k = "block" /\ \A i \in 1..Len(s.body) : ExprIsEmpty(s.body[i])

\* fault: the statement is put in front of the statements of the block
IntoStmt_Prepended(b, block, stmt) ==
    Returning(IF b.err # "" THEN b
              ELSE [b EXCEPT !.basic_blocks[block + 1].statements =
                                <<StatementExpr(stmt)>> \o @],
              block)

\* Builder::into_stmt
IntoStmt(b, block, stmt) ==
    Returning(Push(b, block, StatementExpr(stmt)), block)

\* the suspend terminator of the flavor the function is built with
SuspendTerminator(kind, rvalue, target) ==
    IF kind = "Generator" THEN Suspend(rvalue, target) ELSE Await(target)

\* fault: the suspended block is resumed at its own beginning
Mac_ResumesItself(b, block, s) ==
    LET b1     == StartNewBlock(b, "AfterYield")
        resume == b1.ret
        b2     == Terminate(b1, block,
                            SuspendTerminator(b.state_machine_kind, s.ex, block))
    IN  Returning(b2, resume)

\* Builder::mac for the suspension marker yield_!(e)
Mac(b, block, s) ==
    LET b1     == StartNewBlock(b, "AfterYield")
        resume == b1.ret
        b2     == Terminate(b1, block,
                            SuspendTerminator(b.state_machine_kind, s.ex, resume))
    IN  Returning(b2, resume)

\* fault: a jump that loses its label
JumpLabel_Dropped(s) == NoLabel

\* `label.map(|label| label.node)`: the label Builder::expr hands on
JumpLabel(s) == s.name

\* the closures of Builder::expr that select the target of a jump
ContinueSelector(loop_scope) == loop_scope.continue_block

\* fault: a break that jumps to the head of the loop
BreakSelector_ToLoopHead(loop_scope) == loop_scope.continue_block

BreakSelector(loop_scope) == loop_scope.break_block

\* fault: the code after the jump goes on in the block the jump ended
BreakOrContinue_SameBlock(b, label, block, is_break) ==
    IF b.err # "" THEN b
    ELSE LET i == FindLoopScope(b, label)
         IN  IF i = 0 THEN Fail(b, "no enclosing loop scope found?")
             ELSE LET loop_scope == b.loop_scopes[i]
                      exit_block == IF is_break THEN BreakSelector(loop_scope)
                                    ELSE ContinueSelector(loop_scope)
                      b1 == ExitScope(b, loop_scope.extent, block, exit_block)
                  IN  Returning(b1, block)

\* Builder::break_or_continue (mar/build/expr.rs)
BreakOrContinue(b, label, block, is_break) ==
    IF b.err # "" THEN b
    ELSE LET i == FindLoopScope(b, label)
         IN  IF i = 0 THEN Fail(b, "no enclosing loop scope found?")
             ELSE LET loop_scope == b.loop_scopes[i]
                      exit_block == IF is_break THEN BreakSelector(loop_scope)
                                    ELSE ContinueSelector(loop_scope)
                      b1 == ExitScope(b, loop_scope.extent, block, exit_block)
                  IN  StartNewBlock(b1, "AfterBreakOrContinue")

\* fault: a shadowed declaration whose alias is never bound
Alias_NotBound(b, block, decl) == b

\* Builder::alias: `let <name>_shadowed_<decl> = <name>;`
Alias(b, block, decl) ==
    LET lvalue == DeclIdent(b, decl)
        alias  == ShadowedIdent(lvalue, decl)
    IN  Push(b, block, StatementLet(alias, ExprStmt(Var(lvalue))))

\* Builder::get_decls_from_pat: a new declaration for the name of the pattern
DeclareVar(b, ident) ==
    IF b.err # "" THEN b
    ELSE [b EXCEPT !.var_decls = Append(@, [ident |-> ident]),
                   !.ret = Len(b.var_decls)]

\* Builder::add_decls_from_pats
AddDeclsFromPats(b, extent, ident) ==
    LET b1 == DeclareVar(b, ident)
    IN  ScheduleDrop(b1, extent, b1.ret, "")

\* the statements of a block that are Statement::Expr, by position
ExprStatementPositions(statements) ==
    {i \in 1..Len(statements) : statements[i].k = "Expr"}

\* remove the statement at position i
RemoveAt(seq, i) == SubSeq(seq, 1, i - 1) \o SubSeq(seq, i + 1, Len(seq))

RECURSIVE MergeDecls(_, _, _)
\* the declarations of `decls[i..]` whose name `into` does not hold yet
MergeDecls(into, decls, i) ==
    IF i > Len(decls) THEN into
    ELSE MergeDecls(
            IF \E j \in 1..Len(into) : into[j].ident = decls[i].ident
            THEN into ELSE Append(into, decls[i]),
            decls, i + 1)

RECURSIVE BuilderStmts(_, _, _, _, _), BuilderStmt(_, _, _, _),
          BuilderExpr(_, _, _, _), AstBlock(_, _, _, _),
          ExprLoop(_, _, _, _), ExprIf(_, _, _, _), Local(_, _, _, _),
          StmtsRest(_, _, _, _), AstBlockStmts(_, _, _),
          ExprIfThen(_, _, _, _, _), ExprIfElse(_, _, _, _),
          ExprLoopBody(_, _, _, _, _), MatchExpr(_, _, _, _),
          MatchArms(_, _, _, _, _), MatchSecondArm(_, _, _, _)

\* Builder::stmts: `block = self.stmt(extent, block, stmt)` for the next
\* statement, b1 the builder after the statement before it
StmtsRest(b1, extent, stmts, i) == BuilderStmts(b1, extent, b1.ret, stmts, i)

\* Builder::stmts
BuilderStmts(b, extent, block, stmts, i) ==
    IF i > Len(stmts) \/ b.err # "" THEN Returning(b, block)
    ELSE StmtsRest(BuilderStmt(b, extent, block, stmts[i]), extent, stmts, i + 1)

\* Builder::stmt
BuilderStmt(b, extent, block, s) ==
    CASE s.k = "yield" -> Mac(b, block, s)
      [] s.k \in {"let", "letu"} -> Local(b, extent, block, s)
      [] OTHER -> IF ExprIsEmpty(s) THEN Returning(b, block)
                  ELSE BuilderExpr(b, extent, block, s)

\* Builder::ast_block, the end of the block: b3 is the builder after the
\* statements, its ret the block they ended in
AstBlockEnd(b3, ext) ==
    IF b3.err # "" THEN b3
    ELSE Returning(PopScope(b3, ext, b3.ret), b3.ret)

\* Builder::ast_block, the statements in the scope of the new extent b1.ret
AstBlockStmts(b1, block, stmts) ==
    AstBlockEnd(BuilderStmts(PushScope(b1, b1.ret), b1.ret, block, stmts, 1),
                b1.ret)

\* Builder::ast_block: the statements of a block in a scope of their own
AstBlock(b, extent, block, stmts) ==
    AstBlockStmts(StartNewExtent(b), block, stmts)

\* Builder::expr
BuilderExpr(b, extent, block, s) ==
    IF b.err # "" THEN b
    ELSE IF ~BuilderContainsTransition(b, s) THEN IntoStmt(b, block, s)
    ELSE CASE s.k = "block" -> AstBlock(b, extent, block, s.body)
           [] s.k = "continue" -> BreakOrContinue(b, JumpLabel(s), block, FALSE)
           [] s.k = "break" -> BreakOrContinue(b, JumpLabel(s), block, TRUE)
           [] s.k = "retv" -> Fail(b, "cannot return a value")
           [] s.k = "ret" ->
                StartNewBlock(ExitScope(b, extent, block, END_BLOCK), "AfterReturn")
           [] s.k = "if" -> ExprIf(b, extent, block, s)
           [] s.k = "match" -> MatchExpr(b, extent, block, s)
           [] IsLoopKind(s.k) -> ExprLoop(b, extent, block, s)
           [] IsSugarKind(s.k) -> BuilderExpr(b, extent, block, DesugarExpr(s))
           [] OTHER -> Fail(b, "don't know how to handle this yet")

\* fault: the else branch of an `if` jumps to the end of the function
ExprIfJoin_ElseToEnd(b6, then_end, else_end) ==
    Returning(Terminate(Terminate(b6, then_end, Goto(b6.ret)),
                        else_end, Goto(END_BLOCK)),
              b6.ret)

\* Builder::expr, ExprKind::If: the join block b6.ret and the jumps of the two
\* branches into it
ExprIfJoin(b6, then_end, else_end) ==
    Returning(Terminate(Terminate(b6, then_end, Goto(b6.ret)),
                        else_end, Goto(b6.ret)),
              b6.ret)

\* Builder::expr, ExprKind::If: b5 is the builder after the else branch, its
\* ret the block the branch ended in
ExprIfEnds(b5, then_end) ==
    IF b5.err # "" THEN b5
    ELSE ExprIfJoin(StartNewBlock(b5, "IfJoin"), then_end, b5.ret)

\* Builder::expr, ExprKind::If: `else_block = self.into(extent, else_block,
\* else_expr)`, b4 the builder after the then branch, its ret the block the
\* branch ended in
ExprIfElse(b4, extent, else_block, s) ==
    IF b4.err # "" THEN IF s.hasElse THEN b4 ELSE Returning(b4, else_block)
    ELSE ExprIfEnds(IF s.hasElse
                    THEN BuilderExpr(b4, extent, else_block, Block(s.els))
                    ELSE Returning(b4, else_block),
                    b4.ret)

\* Builder::expr, ExprKind::If: `then_block = self.into(extent, then_block,
\* then_expr)`, b3 the builder after the If terminator
ExprIfThen(b3, extent, then_block, else_block, s) ==
    ExprIfElse(AstBlock(b3, extent, then_block, s.body), extent, else_block, s)

\* fault: the branch of an `if` with its two targets exchanged
ExprIf_TargetsExchanged(b, extent, block, s) ==
    LET b1 == StartNewBlock(b, "Then")
        b2 == StartNewBlock(b1, "Else")
    IN  ExprIfThen(Terminate(b2, block, TermIf(s.ex, b2.ret, b1.ret)),
                   extent, b1.ret, b2.ret, s)

\* Builder::expr, ExprKind::If
ExprIf(b, extent, block, s) ==
    LET b1 == StartNewBlock(b, "Then")
        b2 == StartNewBlock(b1, "Else")
    IN  ExprIfThen(Terminate(b2, block, TermIf(s.ex, b1.ret, b2.ret)),
                   extent, b1.ret, b2.ret, s)

\* Builder::match_expr: the join block b6.ret collects the ends of the arms
MatchJoin(b6, first_end, second_end) ==
    Returning(Terminate(Terminate(b6, first_end, Goto(b6.ret)),
                        second_end, Goto(b6.ret)),
              b6.ret)

\* Builder::match_expr: b5 is the builder after the second arm, its ret the
\* block the arm ended in
MatchEnds(b5, first_end) ==
    IF b5.err # "" THEN b5
    ELSE MatchJoin(StartNewBlock(b5, "MatchJoin"), first_end, b5.ret)

\* Builder::match_expr: the second arm is translated against its block; b4
\* is the builder after the first arm, its ret the block that arm ended in
MatchSecondArm(b4, extent, second_block, s) ==
    IF b4.err # "" THEN b4
    ELSE MatchEnds(BuilderExpr(b4, extent, second_block, Block(s.els)), b4.ret)

\* Builder::match_expr: the first arm is translated against its block; b3 is
\* the builder after the Match terminator
MatchArms(b3, extent, first_block, second_block, s) ==
    MatchSecondArm(BuilderExpr(b3, extent, first_block, Block(s.body)),
                   extent, second_block, s)

\* Builder::match_expr for a match of two arms: one target block per arm,
\* the predecessor ends in Match(discriminant, arms), a join block collects
\* the ends of the arms
MatchExpr(b, extent, block, s) ==
    LET b1 == StartNewBlock(b, "Arm")
        b2 == StartNewBlock(b1, "Arm")
    IN  MatchArms(Terminate(b2, block,
                            TermMatch(s.ex, s.pat, b1.ret, s.pat2, b2.ret)),
                  extent, b1.ret, b2.ret, s)

\* Builder::in_loop_scope, before the body: the loop scope is pushed
PushLoopScope(b3, extent, label, continue_block, break_block) ==
    IF b3.err # "" THEN b3
    ELSE [b3 EXCEPT !.loop_scopes = Append(@,
            [extent |-> extent, label |-> label,
             continue_block |-> continue_block, break_block |-> break_block])]

\* fault: the loop scope stays on the stack when the loop is left
PopLoopScope_Skipped(b8) == b8

\* Builder::in_loop_scope, after the body: the loop scope is popped
PopLoopScope(b8) ==
    IF b8.err # "" THEN b8
    ELSE [b8 EXCEPT !.loop_scopes = SubSeq(@, 1, Len(@) - 1)]

\* fault: the end of the body jumps to the exit of the loop
ExprLoopEnd_ToExit(b7, loop_block, exit_block) ==
    Returning(PopLoopScope(Terminate(b7, b7.ret, Goto(exit_block))), exit_block)

\* Builder::expr_loop: the jump back to the head of the loop; b7 is the
\* builder after the body, its ret the block the body ended in
ExprLoopEnd(b7, loop_block, exit_block) ==
    IF b7.err # "" THEN Returning(b7, exit_block)
    ELSE Returning(PopLoopScope(Terminate(b7, b7.ret, Goto(loop_block))),
                   exit_block)

\* Builder::expr_loop: the body; b6 is the builder after the test, its ret
\* the block the body starts in
ExprLoopBody(b6, extent, loop_block, exit_block, s) ==
    ExprLoopEnd(AstBlock(b6, extent, b6.ret, s.body), loop_block, exit_block)

\* fault: the test of a `while` leaves the loop when the condition holds
ExprLoopTest_TargetsExchanged(b5, loop_block, exit_block, s) ==
    IF s.k = "while"
    THEN Terminate(b5, loop_block, TermIf(s.ex, exit_block, b5.ret))
    ELSE b5

\* Builder::expr_loop: the test of a `while`; b5.ret is the block of the body
ExprLoopTest(b5, loop_block, exit_block, s) ==
    IF s.k = "while"
    THEN Terminate(b5, loop_block, TermIf(s.ex, b5.ret, exit_block))
    ELSE b5

\* Builder::expr_loop, with in_loop_scope around the body
ExprLoop(b, extent, block, s) ==
    LET b1 == StartNewBlock(b, "Loop")
        b2 == StartNewBlock(b1, "LoopExit")
        b4 == PushLoopScope(Terminate(b2, block, Goto(b1.ret)),
                            extent, s.name, b1.ret, b2.ret)
    IN  ExprLoopBody(
            ExprLoopTest(IF s.k = "while" THEN StartNewBlock(b4, "LoopBody")
                         ELSE Returning(b4, b1.ret),
                         b1.ret, b2.ret, s),
            extent, b1.ret, b2.ret, s)

\* fault: the alias is bound after the Let statement of the new binding
LocalDeclare_LetBeforeAlias(b3, old, extent, block2, s, init_expr) ==
    Returning(
        ScheduleDrop(IF old = -1
                     THEN Push(b3, block2, StatementLet(s.name, init_expr))
                     ELSE Alias(Push(b3, block2, StatementLet(s.name, init_expr)),
                                block2, old),
                     extent, b3.ret,
                     IF old = -1 THEN "" ELSE ShadowedIdent(s.name, old)),
        block2)

\* Builder::local: the declaration of the pattern, its alias when it shadows
\* the declaration `old`, and the Let statement; b3.ret is the new declaration
LocalDeclare(b3, old, extent, block2, s, init_expr) ==
    Returning(
        Push(ScheduleDrop(IF old = -1 THEN b3 ELSE Alias(b3, block2, old),
                          extent, b3.ret,
                          IF old = -1 THEN "" ELSE ShadowedIdent(s.name, old)),
             block2, StatementLet(s.name, init_expr)),
        block2)

\* Builder::local: `self.find_decl(lvalue)` after the new declaration is made
LocalDeclareIn(b3, extent, block2, s, init_expr) ==
    LocalDeclare(b3, FindDecl(b3, s.name), extent, block2, s, init_expr)

\* Builder::local: the initializer is taken out of the block it was put in
\* (position `take` of block src_block)
LocalTake(b1, extent, block, block2, src_block, take, s) ==
    IF take = 0 THEN Fail(b1, "called Option::unwrap() on a None value")
    ELSE IF BlockData(b1, src_block).statements[take].k # "Expr"
    THEN Fail(b1, "something unexpected")
    ELSE LocalDeclareIn(
            DeclareVar(
                [b1 EXCEPT
                    !.basic_blocks[src_block + 1].statements = RemoveAt(@, take),
                    !.basic_blocks[block2 + 1].decls =
                        IF block = block2 THEN @
                        ELSE MergeDecls(@, BlockData(b1, block2 - 1).decls, 1)],
                s.name),
            extent, block2, s, BlockData(b1, src_block).statements[take].stmt)

\* Builder::local, after `let block2 = self.expr(extent, block, init)`
LocalInit(b1, extent, block, s) ==
    IF b1.err # "" THEN b1
    ELSE
    LET block2    == b1.ret
        same      == block = block2
        src_block == IF same THEN block ELSE block2 - 1
        stmts     == BlockData(b1, src_block).statements
        positions == ExprStatementPositions(stmts)
        \* `statements.pop().unwrap()` / the first Statement::Expr
        take      == IF same THEN Len(stmts)
                     ELSE IF positions = {} THEN 0
                     ELSE CHOOSE i \in positions : \A j \in positions : i <= j
    IN  LocalTake(b1, extent, block, block2, src_block, take, s)

\* Builder::local
Local(b, extent, block, s) ==
    IF b.err # "" THEN b
    ELSE IF s.k = "letu"
    THEN Fail(b, "Local variables need initializers at the moment")
    ELSE LocalInit(BuilderExpr(b, extent, block,
                               IF s.body = <<>> THEN ExprStmt(s.ex)
                               ELSE s.body[1]),
                   extent, block, s)

(***************************************************************************)
(* construct() (mar/build/mod.rs).                                         *)
(***************************************************************************)
\* a Builder that starts from the tables the previous construct() left behind
NewBuilder_KeepsTables(prev, kind) ==
    IF DOMAIN prev = {}
    THEN [state_machine_kind |-> kind, basic_blocks |-> <<>>, var_decls |-> <<>>,
          scopes |-> <<>>, loop_scopes |-> <<>>, extents |-> <<>>,
          err |-> "", ret |-> 0]
    ELSE [prev EXCEPT !.state_machine_kind = kind, !.err = "", !.ret = 0]

\* fault: the flavor of the builder of the previous item is kept
NewBuilder_KeepsKind(prev, kind) ==
    [state_machine_kind |-> IF DOMAIN prev = {} THEN kind
                            ELSE prev.state_machine_kind,
     basic_blocks |-> <<>>, var_decls |-> <<>>,
     scopes |-> <<>>, loop_scopes |-> <<>>, extents |-> <<>>,
     err |-> "", ret |-> 0]

\* the Builder that construct() creates; nothing of an earlier builder is kept
NewBuilder(prev, kind) ==
    [state_machine_kind |-> kind, basic_blocks |-> <<>>, var_decls |-> <<>>,
     scopes |-> <<>>, loop_scopes |-> <<>>, extents |-> <<>>,
     err |-> "", ret |-> 0]

\* fault: the statements that restore a shadowed name go with the drops
RetainNoDrops_UnshadowToo(statements) ==
    SelectSeq(statements, LAMBDA st : st.k \notin {"Drop", "Unshadow"})

\* `bb.statements.retain(..)`: the statements without the drops
RetainNoDrops(statements) ==
    SelectSeq(statements, LAMBDA st : st.k # "Drop")

\* construct(): the drops are removed from the blocks; `live` are the live
\* declarations found before the scope of the function was popped
ConstructResult(b10, live) ==
    IF b10.err # "" THEN b10
    ELSE [b10 EXCEPT
            !.basic_blocks =
                [i \in 1..Len(b10.basic_blocks) |->
                    [b10.basic_blocks[i] EXCEPT
                        !.statements = RetainNoDrops(@)]],
            !.ret = Len(live)]

\* construct(), after `block = builder.ast_block(extent, block, ast_block)`
ConstructEnd(b7, extent) ==
    IF b7.err # "" THEN b7
    ELSE ConstructResult(
            Terminate(Terminate(PopScope(b7, extent, b7.ret),
                                b7.ret, Goto(END_BLOCK)),
                      END_BLOCK, TermReturn),
            FindLiveDecls(b7))

\* construct(), from the two assertions on: b2 is the builder after the Start
\* block, b3 the one after the End block
ConstructBody(b2, b3, extent, item) ==
    ConstructEnd(
        AstBlock(AddDeclsFromPats(
                    PushScope(IF b2.ret = START_BLOCK /\ b3.ret = END_BLOCK
                              THEN b3
                              ELSE Fail(b3, "assertion failed: start_new_block"),
                              extent),
                    extent, "x"),
                 extent, START_BLOCK, item.body),
        extent)

\* construct(), after the Start block is made
ConstructBlocks(b2, extent, item) ==
    ConstructBody(b2, StartNewBlock(b2, "End"), extent, item)

\* construct(), after the extent of the function is made
ConstructExtent(b1, item) ==
    ConstructBlocks(StartNewBlock(b1, "Start"), b1.ret, item)

\* the builder at the end of construct(), before the result is assembled
ConstructBuilder(prev, item, kind) ==
    IF ~item.is_fn
    THEN Fail(NewBuilder(prev, kind),
              "state_machine may only be applied to functions")
    ELSE ConstructExtent(StartNewExtent(NewBuilder(prev, kind)), item)

\* the blocks reachable from START_BLOCK along the terminators
RECURSIVE ReachFrom(_, _)
ReachFrom(blocks, seen) ==
    LET more == UNION {Successors(blocks[n + 1].terminator) : n \in seen}
    IN  IF more \subseteq seen THEN seen ELSE ReachFrom(blocks, seen \cup more)

Reachable(mar) == ReachFrom(mar.basic_blocks, {START_BLOCK})

\* fault: the blocks that START_BLOCK does not reach are taken out of the
\* graph and the others renumbered
MarOf_Pruned(b) ==
    LET blocks  == IF b.err = "" THEN b.basic_blocks ELSE <<>>
        keep    == IF blocks = <<>> THEN {} ELSE ReachFrom(blocks, {START_BLOCK})
        rank(n) == Cardinality({m \in keep : m < n})
        Kept(n) == n \in keep
        idx     == SelectSeq([i \in 1..Len(blocks) |-> i - 1], Kept)
    IN  [ok |-> b.err = "", err |-> b.err,
         state_machine_kind |-> b.state_machine_kind,
         basic_blocks |->
            [i \in 1..Len(idx) |->
                [blocks[idx[i] + 1] EXCEPT !.terminator.target = rank(@),
                                           !.terminator.target2 = rank(@)]],
         var_decls |-> IF b.err = "" THEN b.var_decls ELSE <<>>,
         extents |-> IF b.err = "" THEN Len(b.extents) ELSE 0]

\* the Result<Mar, Error> of construct(); a fatal error leaves no Mar
MarOf(b) ==
    [ok |-> b.err = "", err |-> b.err,
     state_machine_kind |-> b.state_machine_kind,
     basic_blocks |-> IF b.err = "" THEN b.basic_blocks ELSE <<>>,
     var_decls |-> IF b.err = "" THEN b.var_decls ELSE <<>>,
     extents |-> IF b.err = "" THEN Len(b.extents) ELSE 0]

Construct(item, kind) == MarOf(ConstructBuilder(NewBuilder(<<>>, kind), item, kind))

(***************************************************************************)
(* The older graph builder, CFGBuilder (src/cfg.rs).  Its suspension       *)
(* marker is `return <value>`; a node holds its statements and its control *)
(* transfers in one list.  A builder value is the struct CFGBuilder plus   *)
(* ret, err as above and the warnings given through span_warn.             *)
(***************************************************************************)
\* enum Stmt
CfgStmt(k, stmt, target, target2, ex) ==
    [k |-> k, stmt |-> stmt, target |-> target, target2 |-> target2, ex |-> ex]

CfgStmtStmt(stmt) == CfgStmt("Stmt", stmt, 0, 0, Lit(0))

CfgStmtGoto(dst) == CfgStmt("Goto", Nop(0), dst, 0, Lit(0))

CfgStmtYield(dst, expr) == CfgStmt("Yield", Nop(0), dst, 0, expr)

CfgStmtIf(expr, then_nx, else_nx) == CfgStmt("If", Nop(0), then_nx, else_nx, expr)

\* CFGBuilder::new
CfgNew ==
    [nodes |-> <<>>, edges |-> <<>>, labeled_loop_map |-> <<>>,
     unlabeled_loop_stack |-> <<>>, warnings |-> <<>>, err |-> "", ret |-> 0]

\* CFGBuilder::add_bb
CfgAddBb(c, name, scope) ==
    IF c.err # "" THEN c
    ELSE [c EXCEPT !.nodes = Append(@, [kind |-> "BasicBlock", name |-> name,
                                        decls |-> scope, stmts |-> <<>>]),
                   !.ret = Len(c.nodes)]

\* graph.add_node(Node::Exit)
CfgAddExit(c) ==
    IF c.err # "" THEN c
    ELSE [c EXCEPT !.nodes = Append(@, [kind |-> "Exit", name |-> "Exit",
                                        decls |-> <<>>, stmts |-> <<>>]),
                   !.ret = Len(c.nodes)]

\* CFGBuilder::add_edge
CfgAddEdge(c, src, dst) ==
    IF c.err # "" THEN c ELSE [c EXCEPT !.edges = Append(@, <<src, dst>>)]

\* CFGBuilder::add_stmt, through get_node_mut
CfgAddStmt(c, nx, stmt) ==
    IF c.err # "" THEN c
    ELSE IF nx + 1 > Len(c.nodes) THEN Fail(c, "missing node!")
    ELSE IF c.nodes[nx + 1].kind # "BasicBlock"
    THEN Fail(c, "node is not a basic block")
    ELSE [c EXCEPT !.nodes[nx + 1].stmts = Append(@, stmt)]

\* CFGBuilder::goto
CfgGoto(c, src, dst) == CfgAddStmt(CfgAddEdge(c, src, dst), src, CfgStmtGoto(dst))

\* CFGBuilder::yield_
CfgYield(c, src, expr, scope) ==
    LET c1  == CfgAddBb(c, "Yield", scope)
        dst == c1.ret
        c2  == CfgAddStmt(CfgAddEdge(c1, src, dst), src, CfgStmtYield(dst, expr))
    IN  Returning(c2, dst)

\* CFGBuilder::contains_transition_expr
CfgContainsTransitionExpr(c, s) ==
    ContainsTransition(s, c.unlabeled_loop_stack # <<>>)

\* the position of a label in labeled_loop_map, 0 when the map has no entry
CfgLabelIndex(c, label) ==
    LET hits == {i \in 1..Len(c.labeled_loop_map) :
                    c.labeled_loop_map[i].label = label}
    IN  IF hits = {} THEN 0 ELSE CHOOSE i \in hits : TRUE

RECURSIVE CfgBlockInner(_, _, _, _, _), CfgStmtTop(_, _, _, _),
          CfgStmtSemi(_, _, _, _), CfgExprLoop(_, _, _, _),
          CfgExprIf(_, _, _, _), CfgBlock(_, _, _, _),
          CfgBlockRest(_, _, _, _), CfgExprIfElse(_, _, _, _, _)

\* CFGBuilder::block_inner: the statements after one that has been added, c1
\* the builder after it, its ret the node it ended in
CfgBlockRest(c1, stmts, i, scope) == CfgBlockInner(c1, stmts, i, c1.ret, scope)

\* CFGBuilder::block_inner: the statements of a block from statement i on;
\* ret is the last node, the scope of the block ends with the block
CfgBlockInner(c, stmts, i, pred, scope) ==
    IF i > Len(stmts) \/ c.err # "" THEN Returning(c, pred)
    ELSE CfgBlockRest(CfgStmtTop(c, pred, scope, stmts[i]), stmts, i + 1,
                      IF stmts[i].k \in {"let", "letu"}
                      THEN Append(scope, stmts[i].name) ELSE scope)

\* CFGBuilder::block: the jump from the last node `pred` of the statements to
\* the exit node c2.ret
CfgBlockExit(c2, pred) == Returning(CfgGoto(c2, pred, c2.ret), c2.ret)

\* CFGBuilder::block: the exit node; c1 is the builder after the statements
CfgBlockEnd(c1, scope) == CfgBlockExit(CfgAddBb(c1, "BlockExit", scope), c1.ret)

\* CFGBuilder::block
CfgBlock(c, pred, scope, stmts) ==
    CfgBlockEnd(CfgBlockInner(c, stmts, 1, pred, scope), scope)

\* CFGBuilder::stmt
CfgStmtTop(c, pred, scope, s) ==
    IF c.err # "" THEN c
    ELSE CASE s.k \in {"let", "letu"} ->
                Returning(CfgAddStmt(c, pred, CfgStmtStmt(s)), pred)
           [] CfgContainsTransitionExpr(c, s) -> CfgStmtSemi(c, pred, scope, s)
           [] OTHER -> Returning(CfgAddStmt(c, pred, CfgStmtStmt(s)), pred)

\* CFGBuilder::stmt_semi
CfgStmtSemi(c, pred, scope, s) ==
    CASE s.k \in {"yield", "retv"} -> CfgYield(c, pred, s.ex, scope)
      [] s.k = "ret" -> Fail(c, "cannot handle empty returns yet")
      [] s.k = "continue" /\ s.name # NoLabel ->
            Fail(c, "cannot handle labeled continues yet")
      [] s.k = "continue" ->
            IF c.unlabeled_loop_stack = <<>>
            THEN Fail(c, "called Option::unwrap() on a None value")
            ELSE Returning(
                    CfgGoto(c, pred,
                            c.unlabeled_loop_stack[Len(c.unlabeled_loop_stack)][1]),
                    pred)
      [] s.k = "break" /\ s.name # NoLabel ->
            Fail(c, "cannot handle labeled breaks yet")
      [] s.k = "break" ->
            IF c.unlabeled_loop_stack = <<>>
            THEN Fail(c, "called Option::unwrap() on a None value")
            ELSE Returning(
                    CfgGoto(c, pred,
                            c.unlabeled_loop_stack[Len(c.unlabeled_loop_stack)][2]),
                    pred)
      [] s.k = "block" -> CfgBlock(c, pred, scope, s.body)
      [] s.k = "loop" -> CfgExprLoop(c, pred, scope, s)
      [] s.k = "if" -> CfgExprIf(c, pred, scope, s)
      [] OTHER -> Fail(c, "cannot handle this yet")

\* CFGBuilder::expr_loop: the loop is pushed on unlabeled_loop_stack and on the
\* stack of its label in labeled_loop_map (entry li, 0 when the map has none);
\* an occupied entry is reported as a shadowed label
CfgPushLoop(c3, label, li, pair) ==
    IF c3.err # "" THEN c3
    ELSE [c3 EXCEPT
            !.unlabeled_loop_stack = Append(@, pair),
            !.warnings =
                IF label # NoLabel /\ li # 0 THEN Append(@, label) ELSE @,
            !.labeled_loop_map =
                IF label = NoLabel THEN @
                ELSE IF li # 0
                THEN [@ EXCEPT ![li].stack = Append(@, pair)]
                ELSE Append(@, [label |-> label, stack |-> <<pair>>])]

\* CFGBuilder::expr_loop: the loop is popped from the two stacks
CfgPopLoop(c6, label, lj) ==
    IF c6.err # "" THEN c6
    ELSE [c6 EXCEPT
            !.unlabeled_loop_stack = SubSeq(@, 1, Len(@) - 1),
            !.labeled_loop_map =
                IF label = NoLabel THEN @
                ELSE [@ EXCEPT ![lj].stack = SubSeq(@, 1, Len(@) - 1)]]

\* CFGBuilder::expr_loop: the loop is left; c6 is the builder after the jump
\* back to the loop entry
CfgExprLoopPop(c6, label, loop_exit) ==
    Returning(CfgPopLoop(c6, label, CfgLabelIndex(c6, label)), loop_exit)

\* CFGBuilder::expr_loop: c5 is the builder after the body, its ret the node
\* the body ended in
CfgExprLoopEnd(c5, label, loop_entry, loop_exit) ==
    CfgExprLoopPop(CfgGoto(c5, c5.ret, loop_entry), label, loop_exit)

\* CFGBuilder::expr_loop: c3 is the builder after the jump into the loop
CfgExprLoopBody(c3, scope, s, loop_entry, loop_exit) ==
    CfgExprLoopEnd(
        CfgBlockInner(CfgPushLoop(c3, s.name, CfgLabelIndex(c3, s.name),
                                  <<loop_entry, loop_exit>>),
                      s.body, 1, loop_entry, scope),
        s.name, loop_entry, loop_exit)

\* CFGBuilder::expr_loop
CfgExprLoop(c, pred, scope, s) ==
    LET c1 == CfgAddBb(c, "LoopEntry", scope)
        c2 == CfgAddBb(c1, "LoopExit", scope)
    IN  CfgExprLoopBody(CfgGoto(c2, pred, c1.ret), scope, s, c1.ret, c2.ret)

\* CFGBuilder::expr_if: c7 is the builder after the else branch, its ret the
\* node the branch ended in
CfgExprIfEnd(c7, endif_nx) == Returning(CfgGoto(c7, c7.ret, endif_nx), endif_nx)

\* CFGBuilder::expr_if: c5 is the builder after the then branch, its ret the
\* node the branch ended in
CfgExprIfElse(c5, scope, s, else_nx, endif_nx) ==
    CfgExprIfEnd(
        CfgBlockInner(CfgGoto(c5, c5.ret, endif_nx),
                      IF s.hasElse THEN <<Block(s.els)>> ELSE <<>>,
                      1, else_nx, scope),
        endif_nx)

\* CFGBuilder::expr_if
CfgExprIf(c, pred, scope, s) ==
    IF CfgContainsTransitionExpr(c, ExprStmt(s.ex))
    THEN Fail(c, "assertion failed: !self.contains_transition_expr(expr)")
    ELSE
    LET c1 == CfgAddBb(c, "Then", scope)
        c2 == CfgAddBb(c1, "Else", scope)
        c3 == CfgAddBb(c2, "EndIf", scope)
        c4 == CfgAddEdge(CfgAddEdge(
                    CfgAddStmt(c3, pred, CfgStmtIf(s.ex, c1.ret, c2.ret)),
                    pred, c1.ret), pred, c2.ret)
    IN  CfgExprIfElse(CfgBlockInner(c4, s.body, 1, c1.ret, scope),
                      scope, s, c2.ret, c3.ret)

\* CFGBuilder::build: the struct CFG, or the panic that ended the build
CfgResult(c4, entry, exit) ==
    [ok |-> c4.err = "", err |-> c4.err,
     nodes |-> IF c4.err = "" THEN c4.nodes ELSE <<>>,
     edges |-> IF c4.err = "" THEN c4.edges ELSE <<>>,
     entry |-> entry, exit |-> exit, warnings |-> c4.warnings,
     unlabeled_loop_stack |-> c4.unlabeled_loop_stack,
     labeled_loop_map |-> c4.labeled_loop_map]

\* CFGBuilder::build: the jump from the last node of the body to the exit
CfgBuildEnd(c3, entry, exit) == CfgResult(CfgGoto(c3, c3.ret, exit), entry, exit)

\* CFGBuilder::build, the scope of the function being its one parameter x
CfgBuild(c0, body) ==
    LET c1 == CfgAddBb(c0, "Entry", <<"x">>)
        c2 == CfgAddExit(c1)
    IN  CfgBuildEnd(CfgBlock(c2, c1.ret, <<"x">>, body), c1.ret, c2.ret)

(***************************************************************************)
(* The synthesized state machine (mar/translate).  A state is the variant  *)
(* of a block with the values of the block's live declarations as fields.  *)
(***************************************************************************)
\* `S::default()`, the placeholder Wrapper::next leaves in self.state
DefaultState == [block |-> -1, fields |-> <<>>]

\* Builder::state_expr: the variant of `block`, its fields taken from the
\* locals of the same name that are in scope where the expression stands
StateExpr(mar, block, env) ==
    LET decls == mar.basic_blocks[block + 1].decls
    IN  [block |-> block,
         fields |-> [i \in 1..Len(decls) |->
                        [name |-> decls[i].ident,
                         val |-> Lookup(env, decls[i].ident)]]]

\* every field of the variant of `block` names a local that is in scope
StateExprCompiles(mar, block, env) ==
    LET decls == mar.basic_blocks[block + 1].decls
    IN  \A i \in 1..Len(decls) : Bound(env, decls[i].ident)

\* the start state: the variant of START_BLOCK, which receives the parameters
StartState(mar, arg) ==
    [block |-> START_BLOCK,
     fields |-> ParamEnv(arg) \o StateExpr(mar, START_BLOCK, ParamEnv(arg)).fields]

\* a statement of a block as it is rendered into the arm
Rendered(st) ==
    CASE st.k = "Expr" -> st.stmt
      [] st.k \in {"Let", "Unshadow"} ->
            IF st.stmt.k = "expr" THEN Let(st.pat, st.stmt.ex)
            ELSE LetC(st.pat, st.stmt)
      [] OTHER -> Block(<<>>)

RECURSIVE ExecStatements(_, _, _)
\* the statements of an arm, in order, in the one scope of the arm
ExecStatements(statements, i, r) ==
    IF i > Len(statements) \/ r.sig # "ok" THEN r
    ELSE ExecStatements(statements, i + 1, ExecStmt(Rendered(statements[i]), r))

\* what one call of the transition closure comes to
ClosureResult(outcome, value, state, r, path) ==
    [outcome |-> outcome, value |-> value, state |-> state,
     log |-> r.log, path |-> path]

RECURSIVE RunArms(_, _, _, _), ArmTerminator(_, _, _, _, _, _)

\* the execution after the discriminant of a Match terminator is evaluated
\* and its value matched: a value n above 0 stands for Some(n), anything
\* else for None; next() takes the value off the iterator it is called on
ArmDiscriminant(term, r1) ==
    IF term.k # "Match" \/ r1.sig # "ok" \/ term.ex.f # "next"
            \/ Eval(term.ex, r1.env) <= 0
    THEN r1
    ELSE [r1 EXCEPT !.env = Assign(@, term.ex.a, Eval(term.ex, r1.env) - 1)]

\* the block the terminator of an arm leads to
ArmTarget(term, env) ==
    CASE term.k = "If" ->
            IF Eval(term.ex, env) # 0 THEN term.target ELSE term.target2
      [] term.k = "Match" ->
            IF Eval(term.ex, env) > 0 THEN term.target ELSE term.target2
      [] term.k = "Return" -> END_BLOCK
      [] OTHER -> term.target

\* fault: the arm of a Goto or If hands the next state back to the driver
ArmTerminator_ReturnsAtGoto(mar, state, r1, p1, term, dest) ==
    IF r1.sig # "ok" \/ term.k = "None" \/ ~StateExprCompiles(mar, dest, r1.env)
    THEN ClosureResult("broken", 0, state, r1, p1)
    ELSE CASE term.k = "Suspend" ->
                ClosureResult("value", Eval(term.ex, r1.env),
                              StateExpr(mar, dest, r1.env), r1, p1)
           [] term.k = "Await" ->
                ClosureResult("notready", 0, StateExpr(mar, dest, r1.env), r1, p1)
           [] OTHER ->
                ClosureResult("finished", 0, StateExpr(mar, dest, r1.env), r1, p1)

\* the terminator of an arm: r1 is the execution after the statements of the
\* arm, dest the block the terminator leads to
ArmTerminator(mar, state, r1, p1, term, dest) ==
    IF r1.sig = "diverge" THEN ClosureResult("hung", 0, state, r1, p1)
    ELSE IF r1.sig # "ok" \/ term.k = "None"
            \/ (term.k \in {"If", "Suspend", "Match"} /\ ExprVar(term.ex) # ""
                    /\ ~Bound(r1.env, ExprVar(term.ex)))
            \/ ~StateExprCompiles(mar, dest, r1.env)
    THEN ClosureResult("broken", 0, state, r1, p1)
    ELSE
    LET next == StateExpr(mar, dest, r1.env)
    IN  CASE term.k \in {"Goto", "If", "Match"} -> RunArms(mar, next, r1, p1)
          [] term.k = "Suspend" ->
                ClosureResult("value", Eval(term.ex, r1.env), next, r1, p1)
          [] term.k = "Await" -> ClosureResult("notready", 0, next, r1, p1)
          [] term.k = "Return" ->
                ClosureResult(IF mar.state_machine_kind = "Generator"
                              THEN "finished" ELSE "ready", 0, next, r1, p1)

\* the arm of a block, r1 the execution after its statements
ArmEnd(mar, state, r1, p1, term) ==
    ArmTerminator(mar, state, ArmDiscriminant(term, r1), p1, term,
                  ArmTarget(term, r1.env))

\* the transition closure `|mut state| loop { match state { arms } }`:
\* runs the arm of `state`; a Goto or If arm sets `state` and continues the
\* loop, a Suspend, Await or Return arm returns (value, next state)
RunArms(mar, state, r, path) ==
    IF Len(path) >= MaxArms THEN ClosureResult("hung", 0, state, r, path)
    ELSE ArmEnd(mar, state,
                ExecStatements(mar.basic_blocks[state.block + 1].statements, 1,
                               [r EXCEPT !.env = state.fields]),
                Append(path, state.block),
                mar.basic_blocks[state.block + 1].terminator)

\* fault: the block that ends the function is given no arm
StateArms_WithoutEnd(mar) ==
    {i - 1 : i \in 1..Len(mar.basic_blocks)} \ {END_BLOCK}

\* Builder::state_enum_default_and_arms: the blocks that are given a variant
\* of the state enum and an arm of the match, one of each per block
StateArms(mar) == {i - 1 : i \in 1..Len(mar.basic_blocks)}

\* fault: every invocation starts at the arm of the start block
Closure_FromStart(mar, state) ==
    RunArms(mar, [state EXCEPT !.block = START_BLOCK],
            ExecState(<<>>, DirectFuel, 0), <<>>)

Closure(mar, state) ==
    IF state.block \notin StateArms(mar)
    THEN ClosureResult("broken", 0, state, ExecState(<<>>, DirectFuel, 0), <<>>)
    ELSE RunArms(mar, state, ExecState(<<>>, DirectFuel, 0), <<>>)

\* fault: the wrapper keeps the state it was called in
StoredState_KeepOld(old_state, res) == old_state

\* fault: the state the closure returns is dropped, the placeholder stays
StoredState_Placeholder(old_state, res) == DefaultState

\* Wrapper::next / Wrapper::poll: the state stored when the call is over; a
\* call that does not return leaves the placeholder of mem::replace behind
StoredState(old_state, res) ==
    IF res.outcome \in {"hung", "broken"} THEN DefaultState ELSE res.state

\* the Option<T> / Poll<T> a call returns: Some(val) or None, Ready(val) or
\* NotReady
ReturnedValue(res) ==
    [some |-> res.outcome \in {"value", "ready"}, val |-> res.value]

(***************************************************************************)
(* The functions the model is run on.                                      *)
(***************************************************************************)
RECURSIVE JumpsOk(_, _, _)
\* valid input: every break / continue is inside a loop and names no label
\* or the label of an enclosing loop
JumpsOk(ss, in_loop, labels) ==
    \A i \in 1..Len(ss) :
        LET s == ss[i]
        IN  CASE s.k \in {"break", "continue"} ->
                    in_loop /\ (s.name = NoLabel \/ s.name \in labels)
              [] IsLoopKind(s.k) -> JumpsOk(s.body, TRUE, labels \cup {s.name})
              [] OTHER -> JumpsOk(s.body, in_loop, labels)
                            /\ JumpsOk(s.els, in_loop, labels)

WellFormed(body) == JumpsOk(body, FALSE, {})

RECURSIVE CountKind(_, _)
\* the statements of kind k in a tree
CountKind(ss, k) ==
    IF ss = <<>> THEN 0
    ELSE (IF Head(ss).k = k THEN 1 ELSE 0) + CountKind(Head(ss).body, k)
            + CountKind(Head(ss).els, k) + CountKind(Tail(ss), k)

GenAtoms ==
    {Nop(1), Dec("x"), Let("x", Lit(2)), Yield(Var("x")), Yield(Lit(5)),
     Break(NoLabel), Continue(NoLabel)}

RECURSIVE GenStmts(_), GenBlocks(_)
\* the statement sequences of exactly n nodes
GenBlocks(n) ==
    IF n = 0 THEN {<<>>}
    ELSE UNION {{<<s>> \o rest : s \in GenStmts(k), rest \in GenBlocks(n - k)} :
                    k \in 1..n}

\* the statements of exactly n nodes
GenStmts(n) ==
    (IF n = 1 THEN GenAtoms ELSE {})
        \cup {If(Var("x"), b) : b \in GenBlocks(n - 1)}
        \cup {Loop(NoLabel, b) : b \in GenBlocks(n - 1)}
        \cup {While(NoLabel, Var("x"), b) : b \in GenBlocks(n - 1)}

GenBodies == UNION {GenBlocks(n) : n \in 0..MaxSize}

\* `if true { yield_!(5); }`
BodyIfYield == <<If(Lit(1), <<Yield(Lit(5))>>)>>

\* examples/generator.rs: `if true { let x = foo(); yield_!(x); }`, foo() = 5
BodyExample == <<If(Lit(1), <<Let("x", Lit(5)), Yield(Var("x"))>>)>>

\* `loop { yield_!(x); break; }`
BodyLoopYieldBreak == <<Loop(NoLabel, <<Yield(Var("x")), Break(NoLabel)>>)>>

\* `'outer: loop { loop { continue 'outer; } }`
BodyLabeled == <<Loop("outer", <<Loop(NoLabel, <<Continue("outer")>>)>>)>>

\* `'outer: loop { loop { yield_!(x); x -= 1; if x { continue 'outer; }
\*                        break 'outer; } }`
BodyLabeledYield ==
    <<Loop("outer", <<Loop(NoLabel,
        <<Yield(Var("x")), Dec("x"), If(Var("x"), <<Continue("outer")>>),
          Break("outer")>>)>>)>>

\* `'outer: loop { 'outer: loop { yield_!(x); break 'outer; }
\*                 yield_!(7); break; }`
BodyLabelShadow ==
    <<Loop("outer",
        <<Loop("outer", <<Yield(Var("x")), Break("outer")>>),
          Yield(Lit(7)), Break(NoLabel)>>)>>

\* `let x = 1; yield_!(x); let x = 2; yield_!(x);`
BodyShadow ==
    <<Let("x", Lit(1)), Yield(Var("x")), Let("x", Lit(2)), Yield(Var("x"))>>

\* `{ let x = 7; yield_!(x); } yield_!(x);`
BodyShadowBlock ==
    <<Block(<<Let("x", Lit(7)), Yield(Var("x"))>>), Yield(Var("x"))>>

\* `let x = 3; loop { yield_!(x); x -= 1; if x { continue; } break; } yield_!(x);`
BodyShadowLoop ==
    <<Let("x", Lit(3)),
      Loop(NoLabel, <<Yield(Var("x")), Dec("x"), If(Var("x"), <<Continue(NoLabel)>>),
                      Break(NoLabel)>>),
      Yield(Var("x"))>>

\* `while x { yield_!(x); x -= 1; } f1();`
BodyWhile == <<While(NoLabel, Var("x"), <<Yield(Var("x")), Dec("x")>>), Nop(1)>>

\* `f1(); if x { f2(); yield_!(1); } else { yield_!(2); f3(); } yield_!(x);`
BodyIfElse ==
    <<Nop(1), IfElse(Var("x"), <<Nop(2), Yield(Lit(1))>>, <<Yield(Lit(2)), Nop(3)>>),
      Yield(Var("x"))>>

\* `f1(); while x { x -= 1; } f2();`
BodyNoSuspend == <<Nop(1), While(NoLabel, Var("x"), <<Dec("x")>>), Nop(2)>>

\* `break;` outside of any loop
BodyBreakOutside == <<Nop(1), Break(NoLabel)>>

\* `yield_!(1); break;` outside of any loop
BodyYieldBreakOutside == <<Yield(Lit(1)), Break(NoLabel)>>

\* `return 5;`
BodyReturnValue == <<RetVal(Lit(5))>>

\* `loop { yield_!(1); break 'missing; }`
BodyUnknownLabel == <<Loop(NoLabel, <<Yield(Lit(1)), Break("missing")>>)>>

\* `if yield_!(1) { f1(); }`
BodyIfCondYield == <<If(YieldIn(1), <<Nop(1)>>)>>

\* `while yield_!(1) { f1(); }`
BodyWhileCondYield == <<While(NoLabel, YieldIn(1), <<Nop(1)>>)>>

\* `let y; yield_!(1);`
BodyLetUninit == <<LetUninit("y"), Yield(Lit(1))>>

\* `if x { let y; f1(); }`
BodyLetUninitNested == <<If(Var("x"), <<LetUninit("y"), Nop(1)>>)>>

\* `loop { break; yield_!(x); }`
BodyLoopBreakYield == <<Loop(NoLabel, <<Break(NoLabel), Yield(Var("x"))>>)>>

\* `'a: loop { yield_!(1); break; } 'a: loop { yield_!(2); break; }`
BodyLabelReuse ==
    <<Loop("a", <<Yield(Lit(1)), Break(NoLabel)>>),
      Loop("a", <<Yield(Lit(2)), Break(NoLabel)>>)>>

\* `'a: loop { 'a: loop { yield_!(1); break; } break; }`
BodyLabelNested ==
    <<Loop("a", <<Loop("a", <<Yield(Lit(1)), Break(NoLabel)>>), Break(NoLabel)>>)>>

\* `loop { yield_!(x); loop { break; } break; }`
BodyNestedLoopBreak ==
    <<Loop(NoLabel, <<Yield(Var("x")), Loop(NoLabel, <<Break(NoLabel)>>),
                      Break(NoLabel)>>)>>

\* `f1(|| { return 5; });`
BodyClosureReturn == <<CallClosure(1, <<RetVal(Lit(5))>>)>>

\* `loop { yield_!(x); f1(|| { loop { break; } }); break; }`
BodyClosureLoop ==
    <<Loop(NoLabel, <<Yield(Var("x")),
                      CallClosure(1, <<Loop(NoLabel, <<Break(NoLabel)>>)>>),
                      Break(NoLabel)>>)>>

\* `f1(|| { f2(); }); yield_!(1);`
BodyClosurePlain == <<CallClosure(1, <<Nop(2)>>), Yield(Lit(1))>>

\* `loop { yield_!(x); break; f1(); }`
BodyYieldBreakNop ==
    <<Loop(NoLabel, <<Yield(Var("x")), Break(NoLabel), Nop(1)>>)>>

\* `f1(); loop { yield_!(x); break; } f2();`
BodyCallLoopCall ==
    <<Nop(1), Loop(NoLabel, <<Yield(Var("x")), Break(NoLabel)>>), Nop(2)>>

\* `while x { yield_!(x); x -= 1; if x { continue; } break; } f1();`
BodyWhileJumps ==
    <<While(NoLabel, Var("x"),
            <<Yield(Var("x")), Dec("x"), If(Var("x"), <<Continue(NoLabel)>>),
              Break(NoLabel)>>),
      Nop(1)>>

\* `if x { yield_!(1); } f1();`
BodyIfThenCall == <<If(Var("x"), <<Yield(Lit(1))>>), Nop(1)>>

\* `f1(); {} f2(); yield_!(x);`
BodyEmptyBlock == <<Nop(1), Block(<<>>), Nop(2), Yield(Var("x"))>>

\* `for p in x { yield_!(1); } yield_!(9);`
BodyFor == <<ForLoop(NoLabel, "p", Var("x"), <<Yield(Lit(1))>>), Yield(Lit(9))>>

\* `for p in x { for q in 2 { yield_!(1); } }`
BodyNestedFor ==
    <<ForLoop(NoLabel, "p", Var("x"),
        <<ForLoop(NoLabel, "q", Lit(2), <<Yield(Lit(1))>>)>>)>>

\* `for p in 3 { yield_!(x); x -= 1; if x { continue; } break; } yield_!(9);`
BodyForJumps ==
    <<ForLoop(NoLabel, "p", Lit(3),
        <<Yield(Var("x")), Dec("x"), If(Var("x"), <<Continue(NoLabel)>>),
          Break(NoLabel)>>),
      Yield(Lit(9))>>

\* `'a: for p in x { loop { yield_!(1); continue 'a; } } yield_!(9);`
BodyLabeledFor ==
    <<ForLoop("a", "p", Var("x"),
        <<Loop(NoLabel, <<Yield(Lit(1)), Continue("a")>>)>>),
      Yield(Lit(9))>>

\* `loop { f1(); loop { yield_!(1); break; } yield_!(2);
\*        if x { x -= 1; continue; } break; } yield_!(3);`
BodyNestedJumps ==
    <<Loop(NoLabel,
        <<Nop(1), Loop(NoLabel, <<Yield(Lit(1)), Break(NoLabel)>>), Yield(Lit(2)),
          If(Var("x"), <<Dec("x"), Continue(NoLabel)>>), Break(NoLabel)>>),
      Yield(Lit(3))>>

\* `f1(); return; f2();`
BodyEarlyReturn == <<Nop(1), Ret, Nop(2)>>

CuratedBodies ==
    {BodyIfYield, BodyExample, BodyLoopYieldBreak, BodyLabeled, BodyLabeledYield,
     BodyShadow, BodyShadowBlock, BodyShadowLoop, BodyWhile, BodyIfElse,
     BodyNoSuspend, BodyEarlyReturn, BodyLabelShadow, BodyLoopBreakYield,
     BodyNestedLoopBreak, BodyYieldBreakNop, BodyCallLoopCall, BodyWhileJumps,
     BodyIfThenCall, BodyEmptyBlock, BodyNestedJumps}

\* a function the generator attribute is applied to
Fn(body) == [is_fn |-> TRUE, body |-> body, kind |-> "Generator"]

\* a function the async attribute is applied to
AsyncFn(body) == [is_fn |-> TRUE, body |-> body, kind |-> "Async"]

\* an item that is not a function
NotAFn == [is_fn |-> FALSE, body |-> <<>>, kind |-> "Generator"]

\* the bodies whose single-shot machine the driver polls
AsyncDriven == {BodyExample, BodyIfElse, BodyNoSuspend}

Bodies == {b \in GenBodies : WellFormed(b)} \cup CuratedBodies

\* the items that come first in a batch of two
FirstItems ==
    {Fn(BodyBreakOutside), Fn(BodyYieldBreakOutside), Fn(BodyShadowLoop),
     Fn(BodyReturnValue), Fn(BodyUnknownLabel), Fn(BodyIfCondYield),
     Fn(BodyWhileCondYield), Fn(BodyLetUninit), Fn(BodyLetUninitNested),
     Fn(BodyLabelReuse), Fn(BodyLabelNested), Fn(BodyClosureReturn),
     Fn(BodyClosureLoop), Fn(BodyClosurePlain), NotAFn}

Batches ==
    {<<Fn(b)>> : b \in Bodies}
        \cup {<<a, Fn(b)>> : a \in FirstItems, b \in CuratedBodies}
        \cup {<<AsyncFn(b), Fn(b)>> : b \in CuratedBodies}
        \cup {<<AsyncFn(b)>> : b \in AsyncDriven}

\* the arguments the function is called with
Args == {0, 2}

SugarAtoms == {Nop(1), Yield(Var("x")), Break(NoLabel)}

RECURSIVE GenSugarStmts(_), GenSugarBlocks(_)
\* the statement sequences of exactly n nodes, with `for`, `if let`, `while let`
GenSugarBlocks(n) ==
    IF n = 0 THEN {<<>>}
    ELSE UNION {{<<s>> \o rest : s \in GenSugarStmts(k),
                                 rest \in GenSugarBlocks(n - k)} : k \in 1..n}

GenSugarStmts(n) ==
    (IF n = 1 THEN SugarAtoms ELSE {})
        \cup {ForLoop(NoLabel, "p", Var("e"), b) : b \in GenSugarBlocks(n - 1)}
        \cup {IfLet("p", Var("e"), b) : b \in GenSugarBlocks(n - 1)}
        \cup {WhileLet(NoLabel, "p", Var("e"), b) : b \in GenSugarBlocks(n - 1)}
        \cup {Loop(NoLabel, b) : b \in GenSugarBlocks(n - 1)}

\* `for p in e { if let q = f { break; } yield_!(p); }`
SugarForIfLetBreak ==
    <<ForLoop(NoLabel, "p", Var("e"),
        <<IfLet("q", Var("f"), <<Break(NoLabel)>>), Yield(Var("p"))>>)>>

\* `'outer: for p in e { for q in p { yield_!(q); continue 'outer; } }`
SugarNestedFor ==
    <<ForLoop("outer", "p", Var("e"),
        <<ForLoop(NoLabel, "q", Var("p"),
            <<Yield(Var("q")), Continue("outer")>>)>>)>>

\* `'a: while let p = e { if let q = p { yield_!(q); } else { break 'a; } }`
SugarWhileLetIfLetElse ==
    <<WhileLet("a", "p", Var("e"),
        <<IfLetElse("q", Var("p"), <<Yield(Var("q"))>>, <<Break("a")>>)>>)>>

SugarBodies ==
    UNION {GenSugarBlocks(n) : n \in 0..MaxSugarSize}
        \cup {SugarForIfLetBreak, SugarNestedFor, SugarWhileLetIfLetElse}

(***************************************************************************)
(* The state machine of the model.                                         *)
(***************************************************************************)
VARIABLES
    batch,      \* the items the plugin is applied to, in order
    builder,    \* the Builder of the construct() call that ran last
    built,      \* the results of construct(), one per item processed
    cfgs,       \* the results of CFGBuilder::build, one per function processed
    tree,       \* a body with `for`, `if let`, `while let` to be rewritten
    desugared,  \* the results of rewriting it, once, twice, ...
    crashed,    \* a fatal error ended the compilation
    wrapper,    \* the Wrapper of the last function of the batch, once called
    outputs,    \* what the invocations of the driver returned, in order
    last        \* the transition-closure call of the last invocation

vars ==
    <<batch, builder, built, cfgs, tree, desugared, crashed, wrapper, outputs,
      last>>

NoWrapper == [live |-> FALSE, arg |-> 0, state |-> DefaultState, status |-> "none"]

NoCall == [outcome |-> "none", value |-> 0, state |-> DefaultState,
           log |-> <<>>, path |-> <<>>]

Init ==
    /\ batch \in Batches
    /\ builder = NewBuilder(<<>>, "Generator")
    /\ built = <<>>
    /\ cfgs = <<>>
    /\ tree = <<>>
    /\ desugared = <<>>
    /\ crashed = FALSE
    /\ wrapper = NoWrapper
    /\ outputs = <<>>
    /\ last = NoCall

\* the plugin expands the next item of the batch: construct()
ConstructItem ==
    /\ ~crashed
    /\ Len(built) < Len(batch)
    /\ builder' = ConstructBuilder(builder, batch[Len(built) + 1],
                                    batch[Len(built) + 1].kind)
    /\ built' = Append(built, MarOf(builder'))
    /\ crashed' = (builder'.err # "" /\ batch[Len(built) + 1].is_fn)
    /\ UNCHANGED <<batch, cfgs, tree, desugared, wrapper, outputs, last>>

\* the older plugin expands the next item of the batch:
\* CFGBuilder::new(cx).build(fn_decl, block); an item that is not a function
\* is left alone
CfgBuildItem ==
    /\ Len(cfgs) < Len(batch)
    /\ LET item == batch[Len(cfgs) + 1]
       IN  cfgs' = Append(cfgs, IF item.is_fn THEN CfgBuild(CfgNew, item.body)
                                ELSE CfgBuild(Fail(CfgNew, "not a function"), <<>>))
    /\ UNCHANGED <<batch, builder, built, tree, desugared, crashed, wrapper, outputs, last>>

TheMar == built[Len(batch)]

TheCfg == cfgs[Len(batch)]

\* the program calls the generated function: Wrapper::new(start state, closure)
Call ==
    /\ ~crashed
    /\ Len(built) = Len(batch)
    /\ TheMar.ok
    /\ ~wrapper.live
    /\ \E arg \in Args :
        wrapper' = [live |-> TRUE, arg |-> arg, state |-> StartState(TheMar, arg),
                    status |-> "ready"]
    /\ UNCHANGED <<batch, builder, built, cfgs, tree, desugared, crashed, outputs, last>>

\* the driver invokes the machine: Wrapper::next
WrapperNext ==
    /\ wrapper.live
    /\ wrapper.status = "ready"
    /\ Len(outputs) < MaxInvocations
    /\ last' = Closure(TheMar, wrapper.state)
    /\ wrapper' = [wrapper EXCEPT
                    !.state = StoredState(wrapper.state, last'),
                    !.status = IF last'.outcome \in {"hung", "broken"}
                               THEN last'.outcome ELSE "ready"]
    /\ outputs' = IF last'.outcome \in {"hung", "broken"} THEN outputs
                  ELSE Append(outputs, ReturnedValue(last'))
    /\ UNCHANGED <<batch, builder, built, cfgs, tree, desugared, crashed>>

Next == ConstructItem \/ CfgBuildItem \/ Call \/ WrapperNext

Spec == Init /\ [][Next]_vars

(***************************************************************************)
(* The rewrite of `for`, `if let` and `while let` on its own: a body is    *)
(* chosen and the rewrite is applied to it, and to the result again.       *)
(***************************************************************************)
InitDesugar ==
    /\ batch = <<>>
    /\ builder = NewBuilder(<<>>, "Generator")
    /\ built = <<>>
    /\ cfgs = <<>>
    /\ tree \in SugarBodies
    /\ desugared = <<>>
    /\ crashed = FALSE
    /\ wrapper = NoWrapper
    /\ outputs = <<>>
    /\ last = NoCall

\* the rewrite is applied to the tree as it stands
DesugarTree ==
    /\ Len(desugared) < MaxPasses
    /\ desugared' = Append(desugared,
                           DesugarBody(IF desugared = <<>> THEN tree
                                       ELSE desugared[Len(desugared)]))
    /\ UNCHANGED <<batch, builder, built, cfgs, tree, crashed, wrapper, outputs,
                   last>>

NextDesugar == DesugarTree

SpecDesugar == InitDesugar /\ [][NextDesugar]_vars

(***************************************************************************)
(* Functions with `for` loops: the builder rewrites each loop when it      *)
(* comes to it, and the driver runs the machine of the last function.      *)
(***************************************************************************)
ForBodies == {BodyFor, BodyNestedFor, BodyForJumps, BodyLabeledFor}

ForBatches ==
    {<<Fn(b)>> : b \in ForBodies \cup Bodies}
        \cup {<<Fn(a), Fn(b)>> : a \in ForBodies \cup {BodyShadow}, b \in ForBodies}

InitFor ==
    /\ batch \in ForBatches
    /\ builder = NewBuilder(<<>>, "Generator")
    /\ built = <<>>
    /\ cfgs = <<>>
    /\ tree = <<>>
    /\ desugared = <<>>
    /\ crashed = FALSE
    /\ wrapper = NoWrapper
    /\ outputs = <<>>
    /\ last = NoCall

SpecFor == InitFor /\ [][Next]_vars

(***************************************************************************)
(* Functions with a `let` whose initializer contains a suspension point.   *)
(***************************************************************************)
\* `let y = if x { let z = 1; yield_!(z); f1(); }; yield_!(9);`
BodyLetIf ==
    <<LetC("y", If(Var("x"), <<Let("z", Lit(1)), Yield(Var("z")), Nop(1)>>)),
      Yield(Lit(9))>>

\* `let y = if x { yield_!(1); }; yield_!(9);`
BodyLetIfYield == <<LetC("y", If(Var("x"), <<Yield(Lit(1))>>)), Yield(Lit(9))>>

\* `let y = loop { f1(); yield_!(1); break; }; yield_!(9);`
BodyLetLoop ==
    <<LetC("y", Loop(NoLabel, <<Nop(1), Yield(Lit(1)), Break(NoLabel)>>)),
      Yield(Lit(9))>>

\* `let y = loop { yield_!(1); break; }; yield_!(9);`
BodyLetLoopYield ==
    <<LetC("y", Loop(NoLabel, <<Yield(Lit(1)), Break(NoLabel)>>)), Yield(Lit(9))>>

LetBodies == {BodyLetIf, BodyLetIfYield, BodyLetLoop, BodyLetLoopYield}

LetBatches ==
    {<<Fn(b)>> : b \in LetBodies \cup Bodies}
        \cup {<<Fn(a), Fn(b)>> : a \in LetBodies, b \in LetBodies \cup {BodyShadow}}

InitLet ==
    /\ batch \in LetBatches
    /\ builder = NewBuilder(<<>>, "Generator")
    /\ built = <<>>
    /\ cfgs = <<>>
    /\ tree = <<>>
    /\ desugared = <<>>
    /\ crashed = FALSE
    /\ wrapper = NoWrapper
    /\ outputs = <<>>
    /\ last = NoCall

SpecLet == InitLet /\ [][Next]_vars

(***************************************************************************)
(* Properties.                                                             *)
(***************************************************************************)
\* the body of the function the driver runs
DriverBody == batch[Len(batch)].body

\* the flavor of the function the driver invokes
DriverKind == batch[Len(batch)].kind

\* a body of opaque statements, lets, if, loop, break, continue and
\* suspension points only
NoReturnIn(body) == CountKind(body, "ret") = 0 /\ CountKind(body, "retv") = 0

\* what n invocations return according to the direct execution d: its values
\* at the suspension points in order, then `None`
ExpectedOutputs(d, n) ==
    [i \in 1..n |-> IF i <= Len(d.outs) THEN [some |-> TRUE, val |-> d.outs[i]]
                    ELSE [some |-> FALSE, val |-> 0]]

\* C1: the values the successive driver invocations return are, value for
\* value and in order, the values the direct execution of the body produces
\* at its suspension points, followed by `no more output`; an invocation
\* that does not return stands for a direct execution that neither reaches
\* another suspension point nor ends.
C1_OutputsRefineDirect ==
    (Len(built) = Len(batch) /\ WellFormed(DriverBody)
        /\ NoReturnIn(DriverBody) /\ DriverKind = "Generator") =>
        /\ TheMar.ok
        /\ wrapper.live =>
            LET n == Len(outputs)
                d == Direct(DriverBody, wrapper.arg, n)
            IN  /\ wrapper.status # "broken"
                /\ n > 0 => /\ d.sig \in {"ok", "paused"}
                            /\ outputs = ExpectedOutputs(d, n)
                /\ wrapper.status = "hung" =>
                        Direct(DriverBody, wrapper.arg, n + 1).sig = "diverge"

\* C1 witness: a body with a loop has produced two values and then ended
C1_Witness ==
    /\ wrapper.live
    /\ CountKind(DriverBody, "loop") > 0
    /\ Len(outputs) = 3
    /\ outputs[1].some /\ outputs[2].some /\ ~outputs[3].some

\* the locals in scope at the suspension point the direct execution d
\* stopped at are, in order of declaration, the live declarations of block
\* `block`, and the fields of `state` hold their values
LiveAcross(mar, block, state, d) ==
    LET decls == mar.basic_blocks[block + 1].decls
    IN  /\ Len(decls) = Len(d.env)
        /\ Len(state.fields) = Len(d.env)
        /\ \A i \in 1..Len(d.env) :
            /\ mar.var_decls[decls[i].decl + 1].ident = d.env[i].name
            /\ state.fields[i].name = decls[i].ident
            /\ state.fields[i].val = d.env[i].val

RECURSIVE ScopesAtSuspensions(_, _, _)
\* the names in scope at each suspension point of ss[i..], in source order
ScopesAtSuspensions(ss, i, scope) ==
    IF i > Len(ss) THEN <<>>
    ELSE LET s     == ss[i]
             here  == CASE s.k = "yield" -> <<scope>>
                        [] s.k \in {"let", "letu"} -> <<>>
                        [] OTHER -> ScopesAtSuspensions(s.body, 1, scope)
                                        \o ScopesAtSuspensions(s.els, 1, scope)
             after == IF s.k \in {"let", "letu"} THEN Append(scope, s.name)
                      ELSE scope
         IN  here \o ScopesAtSuspensions(ss, i + 1, after)

IsYieldNode(node) == node.name = "Yield"

\* the declarations of the resume nodes of a graph of CFGBuilder, in order
\* of creation
YieldNodeDecls(cfg) ==
    LET ys == SelectSeq(cfg.nodes, IsYieldNode)
    IN  [i \in 1..Len(ys) |-> ys[i].decls]

\* C2: when an invocation ends at a suspend terminator, the state stored
\* for the next invocation is the variant of the terminator's resume block,
\* every local that is in scope at the suspension point is one of the live
\* declarations of that block, and the field of the state for it holds the
\* value the local has in the direct execution at that suspension point.
\* In the graph of the older builder the resume node of every suspension
\* point lists the names in scope at that point.
C2_LiveAcrossSuspend ==
    (wrapper.live /\ last.outcome = "value" /\ WellFormed(DriverBody)
        /\ NoReturnIn(DriverBody)) =>
        LET src  == last.path[Len(last.path)]
            term == TheMar.basic_blocks[src + 1].terminator
            d    == Direct(DriverBody, wrapper.arg, Len(outputs))
        IN  /\ term.k = "Suspend"
            /\ wrapper.state.block = term.target
            /\ d.sig = "paused"
            /\ LiveAcross(TheMar, term.target, wrapper.state, d)
            /\ (Len(cfgs) = Len(batch) /\ TheCfg.ok) =>
                    YieldNodeDecls(TheCfg)
                        = ScopesAtSuspensions(DriverBody, 1, <<"x">>)

\* C2 witness: a suspension inside a loop, reached a second time, with a
\* local declared in the body and changed between the two suspensions
C2_Witness ==
    /\ wrapper.live
    /\ last.outcome = "value"
    /\ DriverBody = BodyShadowLoop
    /\ Len(outputs) = 2
    /\ Len(wrapper.state.fields) = 2
    /\ wrapper.state.fields[2].val = 2
    /\ Len(cfgs) = Len(batch)
    /\ Len(YieldNodeDecls(TheCfg)) = 2

\* C3: once an invocation has executed the Return terminator the machine is
\* in the variant of END_BLOCK, the finished variant; every later invocation
\* returns `no more output`, runs the arm of END_BLOCK only, which holds no
\* statement, and leaves the machine in the finished variant.
C3_FinishedIsTerminal ==
    (wrapper.live /\ DriverKind = "Generator"
        /\ \E i \in 1..Len(outputs) : ~outputs[i].some) =>
        LET n == Len(outputs)
        IN  /\ wrapper.status = "ready"
            /\ last.outcome = "finished"
            /\ TheMar.basic_blocks[last.path[Len(last.path)] + 1].terminator.k
                    = "Return"
            /\ wrapper.state.block = END_BLOCK
            /\ TheMar.basic_blocks[END_BLOCK + 1].statements = <<>>
            /\ \A i, j \in 1..n : (i < j /\ ~outputs[i].some) => ~outputs[j].some
            /\ (n >= 2 /\ ~outputs[n - 1].some) =>
                    /\ last.path = <<END_BLOCK>>
                    /\ last.log = <<>>

\* C3 witness: a body with an opaque call after its suspension point has
\* returned a value, then ended, and has been invoked once more
C3_Witness ==
    /\ wrapper.live
    /\ DriverBody = BodyWhile
    /\ wrapper.arg = 2
    /\ Len(outputs) = 4
    /\ outputs[2].some /\ ~outputs[3].some /\ ~outputs[4].some
    /\ last.path = <<END_BLOCK>>

\* C4: for a body with no suspension point the machine has exactly two
\* reachable variants, those of START_BLOCK and END_BLOCK, and the first
\* invocation performs the opaque calls of the direct execution of the body,
\* in order, and reports the end (it does not return when the direct
\* execution does not end).
C4_NoSuspensionIdentity ==
    (Len(built) = Len(batch) /\ TheMar.ok /\ WellFormed(DriverBody)
        /\ CountKind(DriverBody, "yield") = 0 /\ DriverKind = "Generator") =>
        /\ Reachable(TheMar) = {START_BLOCK, END_BLOCK}
        /\ (wrapper.live /\ last.outcome # "none" /\ Len(outputs) <= 1) =>
            LET d == Direct(DriverBody, wrapper.arg, 0)
            IN  IF d.sig = "diverge" THEN wrapper.status = "hung"
                ELSE /\ d.sig \in {"ok", "return"}
                     /\ wrapper.status = "ready"
                     /\ outputs = <<[some |-> FALSE, val |-> 0]>>
                     /\ last.log = d.log

\* the blocks n reaches along the terminators
ReachableFrom(mar, n) == ReachFrom(mar.basic_blocks, {n})

\* the names of the blocks of a graph, in order of creation
BlockNames(mar) == [i \in 1..Len(mar.basic_blocks) |-> mar.basic_blocks[i].name]

\* what the driver has seen of `if true { yield_!(5); }` so far: 5, then the end
IfYieldOutputs ==
    wrapper.live =>
        /\ wrapper.status = "ready"
        /\ Len(outputs) >= 1 => outputs[1] = [some |-> TRUE, val |-> 5]
        /\ Len(outputs) >= 2 => ~outputs[2].some

\* C5 as stated: the graph of `if true { yield_!(5); }` has exactly 4 blocks
\* (entry, then, else, join), the else block has no statement, the then
\* block and the else block reach the join block, the first invocation
\* returns 5 and the second the end.
C5_FourBlocks ==
    (Len(built) = Len(batch) /\ DriverBody = BodyIfYield) =>
        /\ TheMar.ok
        /\ Len(TheMar.basic_blocks) = 4
        /\ LET branch == TheMar.basic_blocks[START_BLOCK + 1].terminator
               els    == TheMar.basic_blocks[branch.target2 + 1]
               join   == els.terminator.target
           IN  /\ branch.k = "If"
               /\ els.statements = <<>>
               /\ els.terminator.k = "Goto"
               /\ join \in ReachableFrom(TheMar, branch.target)
        /\ IfYieldOutputs

\* C5: the graph of `if true { yield_!(5); }` has exactly 6 blocks: Start,
\* End, Then, Else, the resume block of the suspension point and IfJoin.
\* Start branches to Then and Else, Then suspends with the value 5 and
\* resumes in the resume block, which jumps to IfJoin; Else has no statement
\* and jumps to IfJoin; IfJoin jumps to End.  The first invocation returns 5
\* and the second the end.  The graph of the older builder has 7 nodes, the
\* same five and Exit and BlockExit.
C5_SixBlocks ==
    (Len(built) = Len(batch) /\ DriverBody = BodyIfYield) =>
        /\ TheMar.ok
        /\ BlockNames(TheMar)
                = <<"Start", "End", "Then", "Else", "AfterYield", "IfJoin">>
        /\ LET bb(n) == TheMar.basic_blocks[n + 1]
           IN  /\ bb(0).terminator = TermIf(Lit(1), 2, 3)
               /\ bb(2).terminator = Suspend(Lit(5), 4)
               /\ bb(4).terminator = Goto(5)
               /\ bb(3).statements = <<>>
               /\ bb(3).terminator = Goto(5)
               /\ bb(5).terminator = Goto(END_BLOCK)
               /\ bb(END_BLOCK).terminator = TermReturn
        /\ IfYieldOutputs
        /\ Len(cfgs) = Len(batch) =>
            /\ TheCfg.ok
            /\ [i \in 1..Len(TheCfg.nodes) |-> TheCfg.nodes[i].name]
                    = <<"Entry", "Exit", "Then", "Else", "EndIf", "Yield",
                        "BlockExit">>

\* C5 witness: `if true { yield_!(5); }` has returned 5 and then the end
C5_Witness ==
    /\ DriverBody = BodyIfYield
    /\ wrapper.live
    /\ Len(cfgs) = Len(batch)
    /\ outputs = <<[some |-> TRUE, val |-> 5], [some |-> FALSE, val |-> 0]>>

\* C6: for `loop { yield_!(x); break; }` the first invocation returns the
\* value of x, the second returns the end, and no later invocation returns a
\* value: the resume block of the suspension point jumps to the exit block
\* of the loop, not to its entry.  In the graph of the older builder the
\* first jump of the resume node is the one to the exit node of the loop.
C6_LoopSuspendBreak ==
    (Len(built) = Len(batch) /\ DriverBody = BodyLoopYieldBreak) =>
        /\ TheMar.ok
        /\ LET entry  == TheMar.basic_blocks[START_BLOCK + 1].terminator.target
               head   == TheMar.basic_blocks[entry + 1]
               resume == TheMar.basic_blocks[head.terminator.target + 1]
               exit   == resume.terminator.target
           IN  /\ head.name = "Loop"
               /\ head.terminator.k = "Suspend"
               /\ resume.terminator.k = "Goto"
               /\ exit # entry
               /\ TheMar.basic_blocks[exit + 1].name = "LoopExit"
               /\ entry \notin ReachableFrom(TheMar, head.terminator.target)
        /\ wrapper.live =>
            /\ wrapper.status = "ready"
            /\ \A i \in 1..Len(outputs) :
                outputs[i] = IF i = 1 THEN [some |-> TRUE, val |-> wrapper.arg]
                             ELSE [some |-> FALSE, val |-> 0]
        /\ Len(cfgs) = Len(batch) =>
            /\ TheCfg.ok
            /\ LET ys == SelectSeq(TheCfg.nodes, IsYieldNode)
               IN  /\ Len(ys) = 1
                   /\ ys[1].stmts[1].k = "Goto"
                   /\ TheCfg.nodes[ys[1].stmts[1].target + 1].name = "LoopExit"

\* C6 witness: the loop has returned x = 2, then the end, twice
C6_Witness ==
    /\ DriverBody = BodyLoopYieldBreak
    /\ wrapper.live
    /\ Len(cfgs) = Len(batch)
    /\ outputs = <<[some |-> TRUE, val |-> 2], [some |-> FALSE, val |-> 0],
                   [some |-> FALSE, val |-> 0]>>

\* the blocks of a graph with the given name, in order of creation
BlocksNamed(mar, name) ==
    LET idx == [i \in 1..Len(mar.basic_blocks) |-> i - 1]
        Named(n) == mar.basic_blocks[n + 1].name = name
    IN  SelectSeq(idx, Named)

C8_ShadowedBindings ==
    (Len(built) = Len(batch) /\ DriverBody = BodyShadow) =>
        /\ TheMar.ok
        /\ LET start == TheMar.basic_blocks[START_BLOCK + 1].statements
           IN  /\ start[Len(start)] = StatementLet("x", ExprStmt(Lit(1)))
               /\ Cardinality({i \in 1..Len(TheMar.var_decls) :
                                TheMar.var_decls[i].ident = "x"}) = 3
        /\ wrapper.live =>
            /\ wrapper.status = "ready"
            /\ \A i \in 1..Len(outputs) :
                outputs[i] = IF i <= 2 THEN [some |-> TRUE, val |-> i]
                             ELSE [some |-> FALSE, val |-> 0]
            /\ Len(outputs) = 1 =>
                    wrapper.state.fields
                        = <<[name |-> ShadowedIdent("x", 0), val |-> wrapper.arg],
                            [name |-> "x", val |-> 1]>>
            /\ Len(outputs) = 2 =>
                    wrapper.state.fields
                        = <<[name |-> ShadowedIdent("x", 0), val |-> wrapper.arg],
                            [name |-> ShadowedIdent("x", 1), val |-> 1],
                            [name |-> "x", val |-> 2]>>
        /\ Len(cfgs) = Len(batch) =>
            /\ TheCfg.ok
            /\ TheCfg.nodes[TheCfg.entry + 1].stmts[1]
                    = CfgStmtStmt(Let("x", Lit(1)))
            /\ LET ys == SelectSeq(TheCfg.nodes, IsYieldNode)
               IN  /\ Len(ys) = 2
                   /\ ys[1].stmts[1] = CfgStmtStmt(Let("x", Lit(2)))

\* C8 witness: both values have been returned and the state holds both
\* bindings
C8_Witness ==
    /\ DriverBody = BodyShadow
    /\ wrapper.live
    /\ Len(cfgs) = Len(batch)
    /\ outputs = <<[some |-> TRUE, val |-> 1], [some |-> TRUE, val |-> 2]>>
    /\ Len(wrapper.state.fields) = 3

RECURSIVE SugarLeft(_, _)
\* the `for`, `if let` and `while let` nodes of ss that contain a transition
\* where they stand
SugarLeft(ss, inside_loop) ==
    IF ss = <<>> THEN 0
    ELSE LET s     == Head(ss)
             inner == inside_loop \/ IsLoopKind(s.k) \/ s.k \in {"for", "whilelet"}
         IN  (IF IsSugarKind(s.k) /\ ContainsTransition(s, inside_loop)
              THEN 1 ELSE 0)
                + SugarLeft(s.body, inner) + SugarLeft(s.els, inner)
                + SugarLeft(Tail(ss), inside_loop)

\* C9: the rewrite of `for`, `while let` and `if let` is idempotent: applied
\* to a tree that is its own output it changes nothing, whatever the tree
\* it started from.
C9_DesugarIdempotent ==
    \A i \in 2..Len(desugared) : desugared[i] = desugared[1]

\* C9 witness: a `for` with an `if let` in its body have been rewritten, which
\* changed the tree, and rewritten again
C9_Witness ==
    /\ tree = SugarForIfLetBreak
    /\ Len(desugared) = 2
    /\ desugared[1] # tree
    /\ SugarLeft(tree, FALSE) = 2
    /\ SugarLeft(desugared[1], FALSE) = 0
    /\ CountKind(desugared[1], "match") = 2

(***************************************************************************)
(* C10: error locality.                                                    *)
(***************************************************************************)
RECURSIVE BreakOutsideLoop(_)
\* one of the statements is a break that no loop encloses
BreakOutsideLoop(ss) ==
    \E i \in 1..Len(ss) :
        \/ ss[i].k = "break"
        \/ /\ ~IsLoopKind(ss[i].k)
           /\ (BreakOutsideLoop(ss[i].body) \/ BreakOutsideLoop(ss[i].els))

\* the item is a function whose body has a break outside of any loop
HasBreakOutsideLoop(item) == item.is_fn /\ BreakOutsideLoop(item.body)

\* C10: when functions A and B are transformed in the same batch and A has a
\* break outside of any loop, A's transformation does not abort the batch, and
\* B's result is the one B gets when it is transformed alone (the basic
\* blocks, declarations, extents and input declarations of construct(), the
\* nodes, edges and warnings of the older builder, or its error for the
\* labelled jumps it cannot handle in B), and construct() succeeds on B
C10_ErrorLocality ==
    (Len(batch) = 2 /\ HasBreakOutsideLoop(batch[1])) =>
        /\ Len(built) = 1 => ~crashed
        /\ Len(built) = 2 =>
                /\ built[2] = Construct(batch[2], "Generator")
                /\ built[2].ok
        /\ Len(cfgs) = 2 => cfgs[2] = CfgBuild(CfgNew, batch[2].body)

\* a batch `f1(); break;` then the if/yield function, both transformed by both
\* builders, the second one into its graph of six blocks
C10_Witness ==
    /\ batch = <<Fn(BodyBreakOutside), Fn(BodyIfYield)>>
    /\ Len(built) = 2
    /\ Len(cfgs) = 2
    /\ built[1].ok
    /\ built[2].ok
    /\ Len(built[2].basic_blocks) = 6
    /\ cfgs[2].ok

(***************************************************************************)
(* C11: break and continue without a loop to jump to.                      *)
(***************************************************************************)
\* the item is a function with a break or continue outside of every loop, or
\* one naming a label that no enclosing loop carries
HasInvalidJump(item) == item.is_fn /\ ~WellFormed(item.body)

\* C11: a function with a break or continue that is outside of every loop, or
\* that names a label no enclosing loop carries, is rejected by construct():
\* no finished graph is produced for it
C11_InvalidJumpRejected ==
    \A i \in 1..Len(built) : HasInvalidJump(batch[i]) => ~built[i].ok

\* the half of C11 that the builder keeps: a jump to a label that no open
\* loop carries is rejected
C11_UnknownLabelRejected ==
    \A i \in 1..Len(built) :
        batch[i] = Fn(BodyUnknownLabel) => ~built[i].ok

(***************************************************************************)
(* C12: the transition function is total.                                  *)
(***************************************************************************)
\* the names of the fields of the variant of a block
VariantFields(mar, block) ==
    LET decls == mar.basic_blocks[block + 1].decls
    IN  [i \in 1..Len(decls) |-> decls[i].ident]

\* the names of the fields a state holds
StateFields(state) == [i \in 1..Len(state.fields) |-> state.fields[i].name]

\* the state is the variant of a reachable block of the graph, holding the
\* fields of that variant (and the parameters, in the start block)
IsVariantOf(mar, state) ==
    /\ state.block \in Reachable(mar) \cap StateArms(mar)
    /\ StateFields(state) \in
            {VariantFields(mar, state.block),
             <<"x">> \o VariantFields(mar, state.block)}

\* C12: every block of a finished graph that is reachable from the start
\* block has a variant and an arm, and its terminator is set and leads only to
\* blocks that have one; every state the machine is invoked in is the variant
\* of a reachable block, and every arm an invocation runs is one of these
C12_TransitionTotal ==
    /\ \A i \in 1..Len(built) :
            built[i].ok =>
                \A n \in Reachable(built[i]) :
                    /\ n \in StateArms(built[i])
                    /\ built[i].basic_blocks[n + 1].terminator.k # "None"
                    /\ Successors(built[i].basic_blocks[n + 1].terminator)
                            \subseteq StateArms(built[i])
    /\ (wrapper.live /\ wrapper.status = "ready") =>
            IsVariantOf(TheMar, wrapper.state)
    /\ wrapper.live =>
            \A j \in 1..Len(last.path) :
                last.path[j] \in Reachable(TheMar) \cap StateArms(TheMar)

\* the machine of the labelled loops has been invoked twice and is in the
\* variant of a block other than the start and end blocks, after an
\* invocation that ran more than one arm
C12_Witness ==
    /\ batch = <<Fn(BodyLabeledYield)>>
    /\ wrapper.live
    /\ wrapper.status = "ready"
    /\ Len(outputs) = 2
    /\ outputs[2].some
    /\ wrapper.state.block \notin {START_BLOCK, END_BLOCK}
    /\ Len(last.path) > 1

(***************************************************************************)
(* C13: the arms one invocation executes.                                  *)
(***************************************************************************)
\* the invocation came back to the driver
Returned(res) == res.outcome \in {"value", "notready", "finished", "ready"}

\* the kind of the terminator of a block
TerminatorKindOf(mar, block) == mar.basic_blocks[block + 1].terminator.k

\* C13 as stated: an invocation that returns to the driver has executed
\* exactly one arm
C13_ExactlyOneArm == Returned(last) => Len(last.path) = 1

\* C13: an invocation that returns to the driver has executed the arm of the
\* variant the machine was in first, then the arm of each variant a Goto or If
\* arm led to, and has stopped at the first arm that ends in a Suspend, Await
\* or Return terminator: one arm or more, exactly one of them (the last) not
\* ending in Goto or If
C13_ArmsUntilSuspension ==
    [][(WrapperNext /\ Returned(last')) =>
            /\ Len(last'.path) >= 1
            /\ last'.path[1] = wrapper.state.block
            /\ \A j \in 1..(Len(last'.path) - 1) :
                    /\ TerminatorKindOf(TheMar, last'.path[j]) \in {"Goto", "If"}
                    /\ last'.path[j + 1] \in
                            Successors(TheMar.basic_blocks[last'.path[j] + 1].terminator)
            /\ TerminatorKindOf(TheMar, last'.path[Len(last'.path)])
                    \in {"Suspend", "Await", "Return"}]_vars

\* the second invocation of the machine of BodyExample has returned after
\* executing more than one arm, the first being the arm of the resume block
C13_Witness ==
    /\ batch = <<Fn(BodyExample)>>
    /\ Len(outputs) = 2
    /\ Returned(last)
    /\ Len(last.path) > 1
    /\ last.path[1] \notin {START_BLOCK, END_BLOCK}

(***************************************************************************)
(* C14: what an invocation hands back to the driver.                       *)
(***************************************************************************)
\* the arms of an invocation that end in a suspend or Return terminator
SuspendingArms(mar, path) ==
    {j \in 1..Len(path) :
        TerminatorKindOf(mar, path[j]) \in {"Suspend", "Await", "Return"}}

\* the result the terminator of the last arm of an invocation stands for:
\* Suspend gives a value, Await `not ready`, Return the end (`ready` for the
\* single-shot flavor)
ResultOfTerminator(mar, block) ==
    CASE TerminatorKindOf(mar, block) = "Suspend" -> "value"
      [] TerminatorKindOf(mar, block) = "Await" -> "notready"
      [] TerminatorKindOf(mar, block) = "Return" ->
            IF mar.state_machine_kind = "Generator" THEN "finished" ELSE "ready"
      [] OTHER -> "none"

\* C14: an invocation that returns to the driver hands back exactly one
\* result, the one of the Suspend, Await or Return terminator of the last arm
\* it executed; that arm is the only one of the invocation with such a
\* terminator, the Goto and If arms before it add nothing to what the driver
\* sees, and the state kept for the next invocation is the variant of the
\* block that terminator resumes in (END_BLOCK after Return).  An invocation
\* that does not return hands back nothing.
C14_OneResultPerInvocation ==
    [][WrapperNext =>
        IF Returned(last')
        THEN /\ Len(outputs') = Len(outputs) + 1
             /\ SuspendingArms(TheMar, last'.path) = {Len(last'.path)}
             /\ last'.outcome
                    = ResultOfTerminator(TheMar, last'.path[Len(last'.path)])
             /\ wrapper'.state.block
                    = IF last'.outcome \in {"finished", "ready"} THEN END_BLOCK
                      ELSE TheMar.basic_blocks[last'.path[Len(last'.path)] + 1]
                                .terminator.target
        ELSE outputs' = outputs]_vars

\* an invocation of the generator of BodyWhile has gone through the arms of
\* a Goto and an If before the Suspend arm whose value it returned
C14_Witness ==
    /\ batch = <<Fn(BodyWhile)>>
    /\ Len(outputs) = 2
    /\ last.outcome = "value"
    /\ \E i, j \in 1..Len(last.path) :
            /\ TerminatorKindOf(TheMar, last.path[i]) = "Goto"
            /\ TerminatorKindOf(TheMar, last.path[j]) = "If"

(***************************************************************************)
(* C15: one terminator per reachable block.                                *)
(***************************************************************************)
RECURSIVE CfgReachFrom(_, _)
\* the nodes of a graph of CFGBuilder that the edges lead to from `seen`
CfgReachFrom(cfg, seen) ==
    LET more == {cfg.edges[i][2] : i \in {j \in 1..Len(cfg.edges) :
                                            cfg.edges[j][1] \in seen}}
    IN  IF more \subseteq seen THEN seen ELSE CfgReachFrom(cfg, seen \cup more)

\* the control transfers a node of CFGBuilder holds, as positions in its
\* statement list
ControlTransfers(node) ==
    {i \in 1..Len(node.stmts) : node.stmts[i].k \in {"Goto", "Yield", "If"}}

\* every reachable block of a graph of construct() has its terminator set
MarOneTerminator(mar) ==
    \A n \in Reachable(mar) : mar.basic_blocks[n + 1].terminator.k # "None"

\* every reachable basic block of a graph of CFGBuilder holds exactly one
\* control transfer, as its last statement
CfgOneTerminator(cfg) ==
    \A n \in CfgReachFrom(cfg, {cfg.entry}) :
        cfg.nodes[n + 1].kind = "BasicBlock" =>
            ControlTransfers(cfg.nodes[n + 1]) = {Len(cfg.nodes[n + 1].stmts)}

\* C15: in every finished graph, of construct() and of CFGBuilder::build,
\* each block reachable from the entry block ends in exactly one control
\* transfer
C15_OneTerminator ==
    /\ \A i \in 1..Len(built) : built[i].ok => MarOneTerminator(built[i])
    /\ \A i \in 1..Len(cfgs) : cfgs[i].ok => CfgOneTerminator(cfgs[i])

\* the part of C15 that holds: the graphs of construct()
C15_MarOneTerminator ==
    \A i \in 1..Len(built) : built[i].ok => MarOneTerminator(built[i])

(***************************************************************************)
(* C16: the blocks that the start block does not reach.                    *)
(***************************************************************************)
\* the blocks of a graph that START_BLOCK does not reach
Unreachable(mar) == StateArms(mar) \ Reachable(mar)

\* `loop { yield_!(x); }`
BodyLoopYield == <<Loop(NoLabel, <<Yield(Var("x"))>>)>>

\* C16 as stated: a finished graph has no block that START_BLOCK does not
\* reach
C16_NoUnreachableBlock ==
    \A i \in 1..Len(built) : built[i].ok => Unreachable(built[i]) = {}

\* C16: construct() hands over every block it has created.  The block opened
\* after a translated break or continue is part of the finished graph, has
\* its terminator set and is not reachable from START_BLOCK; the exit block
\* of a loop without break is part of the graph and not reachable, and with
\* it the End block when the loop is the last statement.  No graph holds a
\* block opened after a return: `return;` is never translated as a jump
C16_UnreachableBlocksKept ==
    \A i \in 1..Len(built) :
        built[i].ok =>
            /\ BlocksNamed(built[i], "AfterReturn") = <<>>
            /\ \A n \in StateArms(built[i]) :
                    built[i].basic_blocks[n + 1].name = "AfterBreakOrContinue" =>
                        /\ n \in Unreachable(built[i])
                        /\ built[i].basic_blocks[n + 1].terminator.k # "None"
            /\ batch[i].body = BodyLoopYieldBreak =>
                    /\ BlockNames(built[i])
                            = <<"Start", "End", "Loop", "LoopExit", "AfterYield",
                                "AfterBreakOrContinue">>
                    /\ Unreachable(built[i]) = {5}
            /\ batch[i].body = BodyLoopYield =>
                    /\ BlockNames(built[i])
                            = <<"Start", "End", "Loop", "LoopExit", "AfterYield">>
                    /\ Unreachable(built[i]) = {END_BLOCK, 3}
            /\ batch[i].body = BodyLoopBreakYield =>
                    /\ BlockNames(built[i])
                            = <<"Start", "End", "Loop", "LoopExit",
                                "AfterBreakOrContinue", "AfterYield">>
                    /\ Unreachable(built[i]) = {4, 5}
                    /\ TerminatorKindOf(built[i], 4) \in {"Suspend", "Await"}

\* the graphs of `loop { yield_!(x); break; }`, built for both flavors, hold
\* the block opened after the break, which the start block does not reach
C16_Witness ==
    /\ batch = <<AsyncFn(BodyLoopYieldBreak), Fn(BodyLoopYieldBreak)>>
    /\ Len(built) = 2
    /\ built[1].ok /\ built[2].ok
    /\ Unreachable(built[1]) = {5}
    /\ Unreachable(built[2]) = {5}

(***************************************************************************)
(* C17: the suspension flavor.                                             *)
(***************************************************************************)
\* the other flavor
OtherKind(kind) == IF kind = "Generator" THEN "Async" ELSE "Generator"

\* the kinds of the terminators of a graph
TerminatorKinds(mar) ==
    {mar.basic_blocks[i].terminator.k : i \in 1..Len(mar.basic_blocks)}

\* a terminator without what tells the two suspend terminators apart: the
\* kind, and the value only Suspend carries
Unflavored(term) ==
    IF term.k \in {"Suspend", "Await"} THEN Term("Pause", term.target, 0, Lit(0))
    ELSE term

\* the blocks of a graph with the suspend terminators made alike
UnflavoredBlocks(mar) ==
    [i \in 1..Len(mar.basic_blocks) |->
        [mar.basic_blocks[i] EXCEPT !.terminator = Unflavored(@)]]

\* two results of construct() that differ in the flavor only: both fail with
\* the same error, or both graphs have the same blocks, block for block the
\* same name, live declarations and statements, and the same terminators
\* but for Suspend in the one where the other has Await with the same target
SameButFlavor(a, b) ==
    /\ a.ok = b.ok
    /\ a.err = b.err
    /\ a.var_decls = b.var_decls
    /\ a.extents = b.extents
    /\ UnflavoredBlocks(a) = UnflavoredBlocks(b)
    /\ \A i \in 1..Len(a.basic_blocks) :
            (a.basic_blocks[i].terminator.k = "Suspend")
                <=> (b.basic_blocks[i].terminator.k = "Await")

\* C17: the result of construct() carries the flavor construct() was called
\* with, and so does the builder all along; a graph of the Generator flavor
\* has no Await terminator and a graph of the Async flavor no Suspend
\* terminator; the graph of a body differs from the graph of the same body
\* built with the other flavor in the kind of the suspend terminators only
C17_FlavorFixed ==
    /\ Len(built) > 0 =>
            builder.state_machine_kind = batch[Len(built)].kind
    /\ \A i \in 1..Len(built) :
            /\ built[i].state_machine_kind = batch[i].kind
            /\ batch[i].kind = "Generator" => "Await" \notin TerminatorKinds(built[i])
            /\ batch[i].kind = "Async" => "Suspend" \notin TerminatorKinds(built[i])
            /\ batch[i].kind = "Generator" =>
                    SameButFlavor(built[i], Construct(batch[i], "Async"))
            /\ batch[i].kind = "Async" =>
                    SameButFlavor(Construct(batch[i], "Generator"), built[i])
    /\ (Len(built) = 2 /\ batch[1].kind = "Async"
            /\ batch[1].body = batch[2].body) =>
            SameButFlavor(built[2], built[1])

\* `while x { yield_!(x); x -= 1; } f1();` has been built with the Async
\* flavor, with an Await terminator, and then with the Generator flavor, with
\* a Suspend terminator in its place
C17_Witness ==
    /\ batch = <<AsyncFn(BodyWhile), Fn(BodyWhile)>>
    /\ Len(built) = 2
    /\ built[1].ok /\ built[2].ok
    /\ "Await" \in TerminatorKinds(built[1])
    /\ "Suspend" \in TerminatorKinds(built[2])

(***************************************************************************)
(* C18: a transition in the condition of an if or a while.                 *)
(***************************************************************************)
RECURSIVE HasTransitionInCondition(_)
\* some if or while of the statements has a condition with a transition
HasTransitionInCondition(ss) ==
    \E i \in 1..Len(ss) :
        \/ ss[i].k \in {"if", "while"} /\ ExprHasTransition(ss[i].ex)
        \/ HasTransitionInCondition(ss[i].body)
        \/ HasTransitionInCondition(ss[i].els)

\* the If terminators of a graph whose condition contains a transition
TransitionConditions(mar) ==
    {i \in 1..Len(mar.basic_blocks) :
        /\ mar.basic_blocks[i].terminator.k = "If"
        /\ ExprHasTransition(mar.basic_blocks[i].terminator.ex)}

\* C18: a function with an if or a while whose condition contains a
\* transition is rejected by construct(), and no finished graph has an If
\* terminator whose condition contains a transition
C18_ConditionRejected ==
    \A i \in 1..Len(built) :
        /\ (batch[i].is_fn /\ HasTransitionInCondition(batch[i].body)) =>
                ~built[i].ok
        /\ built[i].ok => TransitionConditions(built[i]) = {}

\* the part of C18 that holds: the older builder rejects an if whose
\* condition contains a transition
C18_CfgConditionRejected ==
    \A i \in 1..Len(cfgs) :
        (batch[i].is_fn /\ HasTransitionInCondition(batch[i].body)) =>
            ~cfgs[i].ok

(***************************************************************************)
(* C19: a let without an initializer.                                      *)
(***************************************************************************)
\* C19: a function with a `let` that has no initializer is rejected by both
\* builders: no finished graph is produced for it
C19_UninitializedLetRejected ==
    /\ \A i \in 1..Len(built) :
            (batch[i].is_fn /\ CountKind(batch[i].body, "letu") > 0) =>
                ~built[i].ok
    /\ \A i \in 1..Len(cfgs) :
            (batch[i].is_fn /\ CountKind(batch[i].body, "letu") > 0) =>
                ~cfgs[i].ok

\* the part of C19 that holds: construct() rejects a function with a `let`
\* without initializer among the statements it translates, and no finished
\* graph of construct() has a Let statement without an initializer
C19_TranslatedLetRejected ==
    \A i \in 1..Len(built) :
        /\ batch[i] = Fn(BodyLetUninit) => ~built[i].ok
        /\ \A j \in 1..Len(built[i].basic_blocks) :
                \A k \in 1..Len(built[i].basic_blocks[j].statements) :
                    built[i].basic_blocks[j].statements[k].k = "Let" =>
                        built[i].basic_blocks[j].statements[k].stmt.k # "letu"

(***************************************************************************)
(* C20: a return without a value in a generator.                           *)
(***************************************************************************)
\* the item is a function of the producer flavor with a `return;`
HasEmptyReturn(item) ==
    item.is_fn /\ item.kind = "Generator" /\ CountKind(item.body, "ret") > 0

\* C20: a generator with a `return;` is rejected by both builders: no
\* finished graph is produced for it, so the statement is in no graph, as an
\* opaque statement or as a jump
C20_EmptyReturnRejected ==
    /\ \A i \in 1..Len(built) : HasEmptyReturn(batch[i]) => ~built[i].ok
    /\ \A i \in 1..Len(cfgs) : HasEmptyReturn(batch[i]) => ~cfgs[i].ok

\* the part of C20 that holds: `return;` is not translated to a jump.  In
\* the graphs of `f1(); return; f2();` the three statements are the opaque
\* statements of the first block, whose only jump is the one to the end
C20_EmptyReturnNotAJump ==
    /\ \A i \in 1..Len(built) :
            (batch[i].body = BodyEarlyReturn /\ built[i].ok) =>
                /\ BlockNames(built[i]) = <<"Start", "End">>
                /\ built[i].basic_blocks[START_BLOCK + 1].statements
                        = <<StatementExpr(Nop(1)), StatementExpr(Ret),
                            StatementExpr(Nop(2))>>
    /\ \A i \in 1..Len(cfgs) :
            (batch[i].body = BodyEarlyReturn /\ cfgs[i].ok) =>
                LET stmts == cfgs[i].nodes[cfgs[i].entry + 1].stmts
                IN  /\ Len(stmts) = 4
                    /\ SubSeq(stmts, 1, 3)
                            = <<CfgStmtStmt(Nop(1)), CfgStmtStmt(Ret),
                                CfgStmtStmt(Nop(2))>>
                    /\ stmts[4].k = "Goto"

(***************************************************************************)
(* C21: the warning for a loop label that shadows one in scope.            *)
(***************************************************************************)
RECURSIVE LabelReopened(_, _)
\* one of the loops carries a label that a loop around it carries, open being
\* the labels of the loops around ss
LabelReopened(ss, open) ==
    \E i \in 1..Len(ss) :
        IF IsLoopKind(ss[i].k)
        THEN \/ ss[i].name # NoLabel /\ ss[i].name \in open
             \/ LabelReopened(ss[i].body, open \cup {ss[i].name})
        ELSE LabelReopened(ss[i].body, open) \/ LabelReopened(ss[i].els, open)

\* C21: the older builder gives the label-shadowing warning only for a loop
\* labelled L that is entered while another loop labelled L is still open,
\* never for a label whose earlier loop has already been closed
C21_WarningOnlyWhenOpen ==
    \A i \in 1..Len(cfgs) :
        (batch[i].is_fn /\ cfgs[i].warnings # <<>>) =>
            LabelReopened(batch[i].body, {})

\* the parts of C21 that the older builder keeps: the loop labelled 'a inside
\* the open loop labelled 'a is warned about once and the build goes on to a
\* finished graph; what it adds is the same warning for the second of two
\* loops labelled 'a that follow one another
C21_WarningDoesNotAbort ==
    \A i \in 1..Len(cfgs) :
        /\ batch[i] = Fn(BodyLabelNested) =>
                cfgs[i].ok /\ cfgs[i].warnings = <<"a">>
        /\ batch[i] = Fn(BodyLabelReuse) =>
                cfgs[i].ok /\ cfgs[i].warnings = <<"a">>
        /\ (batch[i].is_fn /\ LabelReopened(batch[i].body, {}) /\ cfgs[i].ok) =>
                cfgs[i].warnings # <<>>

(***************************************************************************)
(* C22: the jumps the transition detector counts.                          *)
(***************************************************************************)
RECURSIVE Subtrees(_)
\* the statements of a tree, at every depth
Subtrees(ss) ==
    UNION {{ss[i]} \cup Subtrees(ss[i].body) \cup Subtrees(ss[i].els) :
                i \in 1..Len(ss)}

RECURSIVE NoMarkerNoReturn(_)
\* the tree has no suspension marker and no return with a value
NoMarkerNoReturn(ss) ==
    \A i \in 1..Len(ss) :
        /\ ss[i].k \notin {"yield", "retv"}
        /\ ss[i].ex.v # "yield_!"
        /\ NoMarkerNoReturn(ss[i].body)
        /\ NoMarkerNoReturn(ss[i].els)

\* the subtree has a break or continue, each of its breaks and continues is
\* enclosed by a loop of the subtree it jumps to, and it has no suspension
\* marker and no return with a value
OnlyAbsorbedJumps(s) ==
    /\ CountKind(<<s>>, "break") + CountKind(<<s>>, "continue") > 0
    /\ WellFormed(<<s>>)
    /\ NoMarkerNoReturn(<<s>>)

\* C22: for a subtree whose only jumps are breaks and continues enclosed by a
\* loop inside the subtree, and which has no suspension marker and no return
\* with a value, contains_transition returns false for both values of
\* inside_loop
C22_AbsorbedJumpsNotCounted ==
    \A i \in 1..Len(cfgs) :
        \A s \in Subtrees(batch[i].body) :
            OnlyAbsorbedJumps(s) =>
                /\ ~ContainsTransition(s, FALSE)
                /\ ~ContainsTransition(s, TRUE)

\* what the detector does with such a subtree: the answer is the flag it was
\* called with, and inside a flattened loop the builder therefore flattens
\* the inner `loop { break; }` too, into a second pair of Loop and LoopExit
\* blocks, instead of keeping it as one opaque statement
C22_AbsorbedJumpsFollowFlag ==
    \A i \in 1..Len(built) :
        /\ \A s \in Subtrees(batch[i].body) :
                OnlyAbsorbedJumps(s) =>
                    /\ ~ContainsTransition(s, FALSE)
                    /\ ContainsTransition(s, TRUE)
        /\ batch[i].body = BodyNestedLoopBreak =>
                /\ built[i].ok
                /\ Len(BlocksNamed(built[i], "Loop")) = 2
                /\ Len(BlocksNamed(built[i], "LoopExit")) = 2

(***************************************************************************)
(* C23: the transition detector and the bodies of closures.                *)
(***************************************************************************)
RECURSIVE NoOwnTransition(_)
\* outside of the closures in it the tree has no suspension marker, no
\* return with a value, no break and no continue
NoOwnTransition(ss) ==
    \A i \in 1..Len(ss) :
        \/ ss[i].k = "closure"
        \/ /\ ss[i].k \notin {"yield", "retv", "break", "continue"}
           /\ ss[i].ex.v # "yield_!"
           /\ NoOwnTransition(ss[i].body)
           /\ NoOwnTransition(ss[i].els)

\* C23: a subtree whose only suspension marker, return with a value, break
\* or continue lies inside the body of a nested closure is reported by
\* contains_transition as containing no transition
C23_ClosureBodiesSkipped ==
    \A i \in 1..Len(cfgs) :
        \A s \in Subtrees(batch[i].body) :
            NoOwnTransition(<<s>>) =>
                /\ ~ContainsTransition(s, FALSE)
                /\ ~ContainsTransition(s, TRUE)

\* what the builders do with `f1(|| { return 5; });`: the detector reports
\* the return of the closure as a transition of the call, and neither builder
\* has an arm for a call, so both abort; a closure without a jump or return
\* is kept as an opaque statement
C23_ClosureBodiesWalked ==
    /\ \A i \in 1..Len(cfgs) :
            /\ batch[i] = Fn(BodyClosureReturn) => ~cfgs[i].ok
            /\ batch[i] = Fn(BodyClosureLoop) => ~cfgs[i].ok
            /\ batch[i] = Fn(BodyClosurePlain) => cfgs[i].ok
    /\ \A i \in 1..Len(built) :
            /\ batch[i] = Fn(BodyClosureReturn) => ~built[i].ok
            /\ batch[i] = Fn(BodyClosureLoop) => ~built[i].ok
            /\ batch[i] = Fn(BodyClosurePlain) =>
                    /\ built[i].ok
                    /\ built[i].basic_blocks[START_BLOCK + 1].statements[1].stmt
                            = CallClosure(1, <<Nop(2)>>)

(***************************************************************************)
(* C24: the one Return terminator and the jumps to END_BLOCK.              *)
(***************************************************************************)
\* the blocks that carry a terminator of kind k
BlocksEndingIn(mar, k) ==
    {n \in StateArms(mar) : mar.basic_blocks[n + 1].terminator.k = k}

\* the blocks whose terminator is Goto { target: END_BLOCK }
GotoEndBlocks(mar) ==
    {n \in StateArms(mar) : mar.basic_blocks[n + 1].terminator = Goto(END_BLOCK)}

\* C24: in every finished graph exactly one block carries the Return
\* terminator and it is END_BLOCK, the second block, START_BLOCK being the
\* first; every `return` of the body and the end of the body are translated
\* to a Goto whose target is END_BLOCK
C24_ReturnsJumpToEnd ==
    \A i \in 1..Len(built) :
        built[i].ok =>
            /\ BlocksEndingIn(built[i], "Return") = {END_BLOCK}
            /\ START_BLOCK = 0 /\ END_BLOCK = 1
            /\ Cardinality(GotoEndBlocks(built[i]))
                    >= 1 + CountKind(batch[i].body, "ret")

\* the part of C24 that holds: END_BLOCK, the second block, is the one block
\* with the Return terminator and has no statements, and the end of the body
\* is the one jump to it; a `return;` of the body adds no such jump and no
\* block
C24_OneReturnBlock ==
    \A i \in 1..Len(built) :
        built[i].ok =>
            /\ BlocksEndingIn(built[i], "Return") = {END_BLOCK}
            /\ START_BLOCK = 0 /\ END_BLOCK = 1
            /\ built[i].basic_blocks[START_BLOCK + 1].name = "Start"
            /\ built[i].basic_blocks[END_BLOCK + 1].name = "End"
            /\ built[i].basic_blocks[END_BLOCK + 1].statements = <<>>
            /\ Cardinality(GotoEndBlocks(built[i])) = 1
            /\ BlocksNamed(built[i], "AfterReturn") = <<>>

(***************************************************************************)
(* C25: the blocks of a suspension marker.                                 *)
(***************************************************************************)
RECURSIVE SeqsOf(_)
\* the statement sequences of a tree: the tree and the bodies in it
SeqsOf(ss) ==
    {ss} \cup UNION {SeqsOf(ss[i].body) \cup SeqsOf(ss[i].els) : i \in 1..Len(ss)}

\* no two suspension markers of the body have the same value and no two of
\* its opaque calls the same callee
DistinctMarkers(body) ==
    /\ CountKind(body, "yield")
            = Cardinality({s.ex : s \in {u \in Subtrees(body) : u.k = "yield"}})
    /\ CountKind(body, "nop")
            = Cardinality({s.id : s \in {u \in Subtrees(body) : u.k = "nop"}})

\* the blocks that end in a suspend terminator
SuspendedBlocks(mar) ==
    BlocksEndingIn(mar, "Suspend") \cup BlocksEndingIn(mar, "Await")

\* the blocks that end in the suspend terminator carrying e
SuspendedBy(mar, e) ==
    {n \in BlocksEndingIn(mar, "Suspend") :
        mar.basic_blocks[n + 1].terminator.ex = e}

\* the blocks that hold the opaque statement st
BlocksHolding(mar, st) ==
    {n \in StateArms(mar) :
        \E k \in 1..Len(mar.basic_blocks[n + 1].statements) :
            mar.basic_blocks[n + 1].statements[k] = StatementExpr(st)}

\* the target of the terminator of block n
TargetOf(mar, n) == mar.basic_blocks[n + 1].terminator.target

\* q[j] is an opaque call that follows the suspension marker q[i]
FollowsMarker(q, i, j) == i < j /\ q[i].k = "yield" /\ q[j].k = "nop"

\* no jump and no compound statement lies between q[i] and q[j]
PlainBetween(q, i, j) ==
    \A m \in (i + 1)..(j - 1) : q[m].k \in {"nop", "dec", "let", "yield"}

\* one new block per marker: the suspended blocks are as many as the markers
\* of the body and as the AfterYield blocks, each targets an AfterYield block
\* allocated after it, and no two target the same one
OneResumeBlockEach(mar, body) ==
    /\ Cardinality(SuspendedBlocks(mar)) = CountKind(body, "yield")
    /\ Len(BlocksNamed(mar, "AfterYield")) = CountKind(body, "yield")
    /\ \A n \in SuspendedBlocks(mar) :
            /\ TargetOf(mar, n) > n
            /\ mar.basic_blocks[TargetOf(mar, n) + 1].name = "AfterYield"
            /\ \A m \in SuspendedBlocks(mar) :
                    TargetOf(mar, m) = TargetOf(mar, n) => m = n

\* the older builder: a Yield is the last entry of its node, and its target
\* is a node named Yield that was added after the node, for it alone
CfgOneResumeNodeEach(cfg) ==
    \A n \in 1..Len(cfg.nodes) : \A p \in 1..Len(cfg.nodes[n].stmts) :
        cfg.nodes[n].stmts[p].k = "Yield" =>
            /\ p = Len(cfg.nodes[n].stmts)
            /\ cfg.nodes[n].stmts[p].target > n - 1
            /\ cfg.nodes[cfg.nodes[n].stmts[p].target + 1].name = "Yield"
            /\ \A m \in 1..Len(cfg.nodes) : \A r \in 1..Len(cfg.nodes[m].stmts) :
                    (cfg.nodes[m].stmts[r].k = "Yield"
                        /\ cfg.nodes[m].stmts[r].target = cfg.nodes[n].stmts[p].target)
                    => (m = n /\ r = p)

\* C25 as stated: a suspension marker with value e gets one new resume block,
\* its block ends in the suspend terminator carrying e and the resume block,
\* and every statement that follows the marker in its statement sequence is
\* in the resume block or a block reachable from it, never in the suspended
\* block
C25_FollowersReachable ==
    \A i \in 1..Len(built) :
        (built[i].ok /\ batch[i].kind = "Generator"
                /\ DistinctMarkers(batch[i].body)) =>
            /\ OneResumeBlockEach(built[i], batch[i].body)
            /\ \A q \in SeqsOf(batch[i].body) : \A j, k \in 1..Len(q) :
                    FollowsMarker(q, j, k) =>
                        \A n \in SuspendedBy(built[i], q[j].ex) :
                            \A h \in BlocksHolding(built[i], q[k]) :
                                /\ h # n
                                /\ h \in ReachFrom(built[i].basic_blocks,
                                                   {TargetOf(built[i], n)})

\* C25, amended: a suspension marker with value e gets one new resume block
\* and its block ends in the suspend terminator carrying e and the resume
\* block; every statement that follows the marker in its statement sequence
\* is in exactly one block, never the suspended one and never one allocated
\* before the resume block; it is in the resume block or a block reachable
\* from it when only plain statements lie between the marker and it; in the
\* older builder the marker is the last entry of its node and targets a new
\* node of its own
C25_FollowersAfterResume ==
    /\ \A i \in 1..Len(cfgs) : cfgs[i].ok => CfgOneResumeNodeEach(cfgs[i])
    /\ \A i \in 1..Len(built) :
        built[i].ok =>
            /\ OneResumeBlockEach(built[i], batch[i].body)
            /\ (batch[i].kind = "Generator" /\ DistinctMarkers(batch[i].body)) =>
                \A q \in SeqsOf(batch[i].body) : \A j, k \in 1..Len(q) :
                    FollowsMarker(q, j, k) =>
                        /\ Cardinality(SuspendedBy(built[i], q[j].ex)) = 1
                        /\ Cardinality(BlocksHolding(built[i], q[k])) = 1
                        /\ \A n \in SuspendedBy(built[i], q[j].ex) :
                             \A h \in BlocksHolding(built[i], q[k]) :
                                /\ h # n
                                /\ h >= TargetOf(built[i], n)
                                /\ PlainBetween(q, j, k) =>
                                        h \in ReachFrom(built[i].basic_blocks,
                                                {TargetOf(built[i], n)})

\* `f1(); if x { f2(); yield_!(1); } else { yield_!(2); f3(); } yield_!(x);`
\* is built: f3() is in the resume block of yield_!(2)
C25_Witness ==
    /\ batch = <<Fn(BodyIfElse)>>
    /\ Len(built) = 1
    /\ built[1].ok
    /\ \E n \in SuspendedBy(built[1], Lit(2)) :
            TargetOf(built[1], n) \in BlocksHolding(built[1], Nop(3))

(***************************************************************************)
(* C26: the blocks of a `loop`.                                            *)
(***************************************************************************)
RECURSIVE TranslatedKind(_, _, _)
\* the statements of kind k that Builder::expr translates, those it reaches
\* through statements the detector reports: a statement without transition is
\* kept whole as an opaque statement
TranslatedKind(ss, inside_loop, k) ==
    IF ss = <<>> THEN 0
    ELSE (IF ~ContainsTransition(Head(ss), inside_loop) THEN 0
          ELSE (IF Head(ss).k = k THEN 1 ELSE 0)
                + TranslatedKind(Head(ss).body,
                                 inside_loop \/ IsLoopKind(Head(ss).k), k)
                + TranslatedKind(Head(ss).els, inside_loop, k))
         + TranslatedKind(Tail(ss), inside_loop, k)

\* the blocks whose terminator has block n among its targets
Predecessors(mar, n) ==
    {m \in StateArms(mar) : n \in Successors(mar.basic_blocks[m + 1].terminator)}

\* the entry blocks of the translated loops
LoopBlocks(mar) == {n \in StateArms(mar) : mar.basic_blocks[n + 1].name = "Loop"}

\* the entry block n is that of a `while`: it ends in the test, whose second
\* target is the exit block
IsWhileBlock(mar, n) ==
    /\ mar.basic_blocks[n + 1].terminator.k = "If"
    /\ mar.basic_blocks[n + 1].terminator.target2 = n + 1

\* the blocks that end in a Goto to the exit block of some loop
GotoExitBlocks(mar) ==
    {m \in StateArms(mar) :
        \E n \in LoopBlocks(mar) : mar.basic_blocks[m + 1].terminator = Goto(n + 1)}

\* the blocks of one translated loop: the exit block is allocated right
\* after the entry block; one block before the entry block, the predecessor,
\* ends in Goto(entry); a block after the exit block, the end of the body,
\* ends in Goto(entry); every block that leads to the entry is one of these
\* Gotos; the exit block of a `loop` is entered by Gotos of blocks of the
\* loop only
LoopShape(mar, n) ==
    /\ n + 1 \in StateArms(mar)
    /\ mar.basic_blocks[n + 2].name = "LoopExit"
    /\ Cardinality({m \in Predecessors(mar, n) : m < n}) = 1
    /\ \E m \in Predecessors(mar, n) : m > n + 1
    /\ \A m \in Predecessors(mar, n) :
            mar.basic_blocks[m + 1].terminator = Goto(n)
    /\ ~IsWhileBlock(mar, n) =>
            \A m \in Predecessors(mar, n + 1) :
                /\ mar.basic_blocks[m + 1].terminator = Goto(n + 1)
                /\ m >= n

\* the statement before and the statement after the one loop of a body, when
\* they are opaque calls: the first is in the predecessor of the entry
\* block, the second in the exit block
LoopNeighbours(mar, body) ==
    \A q \in SeqsOf(body) : \A j \in 1..Len(q) : \A n \in LoopBlocks(mar) :
        IsLoopKind(q[j].k) =>
            /\ (j > 1 /\ q[j - 1].k = "nop") =>
                    BlocksHolding(mar, q[j - 1])
                        = {m \in Predecessors(mar, n) : m < n}
            /\ (j < Len(q) /\ q[j + 1].k = "nop") =>
                    BlocksHolding(mar, q[j + 1]) = {n + 1}

\* the edges of the older builder that lead to node n
CfgPredecessors(cfg, n) ==
    {cfg.edges[i][1] : i \in {j \in 1..Len(cfg.edges) : cfg.edges[j][2] = n}}

\* the nodes of one loop of the older builder
CfgLoopShape(cfg, n) ==
    /\ n + 2 <= Len(cfg.nodes)
    /\ cfg.nodes[n + 2].name = "LoopExit"
    /\ Cardinality({m \in CfgPredecessors(cfg, n) : m < n}) = 1
    /\ \E m \in CfgPredecessors(cfg, n) : m >= n
    /\ \A m \in CfgPredecessors(cfg, n) \cup CfgPredecessors(cfg, n + 1) :
            \E p \in 1..Len(cfg.nodes[m + 1].stmts) :
                /\ cfg.nodes[m + 1].stmts[p].k = "Goto"
                /\ cfg.nodes[m + 1].stmts[p].target \in {n, n + 1}
    /\ \A m \in CfgPredecessors(cfg, n + 1) : m >= n

\* C26: translating `loop { body }` ends the predecessor block with
\* Goto(entry) and the final block of the translated body with Goto(entry),
\* and goes on in the exit block; the exit block is entered only by the Goto
\* of a `break` that targets this loop: the Gotos to exit blocks are as many
\* as the translated breaks
C26_LoopBlocks ==
    /\ \A i \in 1..Len(built) :
            built[i].ok =>
                /\ \A n \in LoopBlocks(built[i]) : LoopShape(built[i], n)
                /\ Cardinality(LoopBlocks(built[i]))
                        = TranslatedKind(batch[i].body, FALSE, "loop")
                            + TranslatedKind(batch[i].body, FALSE, "while")
                /\ Cardinality(GotoExitBlocks(built[i]))
                        = TranslatedKind(batch[i].body, FALSE, "break")
                /\ (DistinctMarkers(batch[i].body)
                        /\ Cardinality(LoopBlocks(built[i])) = 1
                        /\ CountKind(batch[i].body, "loop")
                            + CountKind(batch[i].body, "while") = 1) =>
                        LoopNeighbours(built[i], batch[i].body)
    /\ \A i \in 1..Len(cfgs) :
            cfgs[i].ok =>
                \A n \in 1..Len(cfgs[i].nodes) :
                    cfgs[i].nodes[n].name = "LoopEntry" =>
                        CfgLoopShape(cfgs[i], n - 1)

\* `f1(); loop { yield_!(x); break; } f2();` is built by both builders: the
\* block of f1() ends in Goto(entry), a later block jumps back to the entry,
\* one block jumps to the exit block, and the exit block holds f2()
C26_Witness ==
    /\ batch = <<Fn(BodyCallLoopCall)>>
    /\ Len(built) = 1
    /\ Len(cfgs) = 1
    /\ built[1].ok
    /\ cfgs[1].ok
    /\ \E n \in LoopBlocks(built[1]) :
            /\ built[1].basic_blocks[START_BLOCK + 1].terminator = Goto(n)
            /\ START_BLOCK \in BlocksHolding(built[1], Nop(1))
            /\ \E m \in Predecessors(built[1], n) : m > n + 1
            /\ Cardinality(Predecessors(built[1], n + 1)) = 1
            /\ n + 1 \in BlocksHolding(built[1], Nop(2))

(***************************************************************************)
(* C27: the blocks of a `while`.                                           *)
(***************************************************************************)
RECURSIVE WhileAsLoop(_)
\* the body with every `while c { b }` written as
\* `loop { if c { b } else { break; } }`, the label kept
WhileAsLoop(ss) ==
    [i \in 1..Len(ss) |->
        IF ss[i].k = "while"
        THEN Loop(ss[i].name,
                  <<IfElse(ss[i].ex, WhileAsLoop(ss[i].body), <<Break(NoLabel)>>)>>)
        ELSE [ss[i] EXCEPT !.body = WhileAsLoop(@), !.els = WhileAsLoop(@)]]

\* the entry blocks of the translated `while` loops: the block of the body
\* is allocated right after the exit block
WhileBlocks(mar) ==
    {n \in LoopBlocks(mar) :
        n + 2 \in StateArms(mar) /\ mar.basic_blocks[n + 3].name = "LoopBody"}

\* the conditions of the `while` loops of a body
WhileConditions(body) == {s.ex : s \in {u \in Subtrees(body) : u.k = "while"}}

\* the blocks of one translated `while`: the head ends in
\* If(cond, body, exit), the body is entered from the head only, and a block
\* of the body jumps back to the head
WhileShape(mar, body, n) ==
    /\ mar.basic_blocks[n + 1].terminator.k = "If"
    /\ mar.basic_blocks[n + 1].terminator.ex \in WhileConditions(body)
    /\ mar.basic_blocks[n + 1].terminator.target = n + 2
    /\ mar.basic_blocks[n + 1].terminator.target2 = n + 1
    /\ mar.basic_blocks[n + 1].statements = <<>>
    /\ Predecessors(mar, n + 2) = {n}
    /\ \E m \in Predecessors(mar, n) :
            m >= n + 2 /\ mar.basic_blocks[m + 1].terminator = Goto(n)

\* the jumps of a body whose one loop is a `while` with head n: the Gotos
\* back to the head are the end of the body and the translated `continue`s,
\* the Gotos to the exit block the translated `break`s
WhileJumps(mar, body, n) ==
    /\ Cardinality({m \in Predecessors(mar, n) : m > n})
            = 1 + TranslatedKind(body, FALSE, "continue")
    /\ Cardinality(Predecessors(mar, n + 1) \ {n})
            = TranslatedKind(body, FALSE, "break")
    /\ \A m \in Predecessors(mar, n + 1) \ {n} :
            mar.basic_blocks[m + 1].terminator = Goto(n + 1)

\* C27: translating `while cond { body }` makes the loop head end in
\* If(cond, body, exit) and the end of the body jump back to the head, so
\* that the condition is evaluated before every iteration; a `continue`
\* targets the head and a `break` the exit block; the machine returns what
\* the direct execution of `loop { if cond { body } else { break; } }`
\* produces
C27_WhileBlocks ==
    /\ \A i \in 1..Len(built) :
            built[i].ok =>
                /\ Cardinality(WhileBlocks(built[i]))
                        = TranslatedKind(batch[i].body, FALSE, "while")
                /\ \A n \in WhileBlocks(built[i]) :
                        WhileShape(built[i], batch[i].body, n)
                /\ (CountKind(batch[i].body, "while") = 1
                        /\ CountKind(batch[i].body, "loop") = 0) =>
                        \A n \in WhileBlocks(built[i]) :
                            WhileJumps(built[i], batch[i].body, n)
    /\ (Len(built) = Len(batch) /\ WellFormed(DriverBody)
            /\ NoReturnIn(DriverBody) /\ DriverKind = "Generator"
            /\ CountKind(DriverBody, "while") > 0
            /\ wrapper.live /\ Len(outputs) > 0) =>
            outputs = ExpectedOutputs(
                        Direct(WhileAsLoop(DriverBody), wrapper.arg, Len(outputs)),
                        Len(outputs))

\* `while x { yield_!(x); x -= 1; if x { continue; } break; } f1();` is built
\* and called with 2: the machine has returned 2, then 1, then ended
C27_Witness ==
    /\ batch = <<Fn(BodyWhileJumps)>>
    /\ Len(built) = 1
    /\ WhileBlocks(built[1]) # {}
    /\ wrapper.arg = 2
    /\ outputs = <<[some |-> TRUE, val |-> 2], [some |-> TRUE, val |-> 1],
                   [some |-> FALSE, val |-> 0]>>

(***************************************************************************)
(* C28: the blocks of an `if`.                                             *)
(***************************************************************************)
\* the blocks with the name given
NamedBlocks(mar, name) ==
    {n \in StateArms(mar) : mar.basic_blocks[n + 1].name = name}

\* the conditions of the `if`s of a body
IfConditions(body) == {s.ex : s \in {u \in Subtrees(body) : u.k = "if"}}

\* one of the `if`s of the body has an else
HasElseIn(body) == \E s \in Subtrees(body) : s.k = "if" /\ s.hasElse

\* the branch of one translated `if` with then-block n: the else-block is
\* allocated right after it, and one block, the predecessor, ends in
\* If(cond, then, else) and is the only way into the two
IfBranch(mar, body, n) ==
    /\ n + 1 \in NamedBlocks(mar, "Else")
    /\ Cardinality(Predecessors(mar, n)) = 1
    /\ Predecessors(mar, n + 1) = Predecessors(mar, n)
    /\ \A p \in Predecessors(mar, n) :
            /\ p < n
            /\ mar.basic_blocks[p + 1].terminator.k = "If"
            /\ mar.basic_blocks[p + 1].terminator.ex \in IfConditions(body)
            /\ mar.basic_blocks[p + 1].terminator.target = n
            /\ mar.basic_blocks[p + 1].terminator.target2 = n + 1

\* a join block j: two blocks lead to it, the ends of the two arms, each
\* with Goto(join)
IfJoin(mar, j) ==
    /\ Cardinality(Predecessors(mar, j)) = 2
    /\ \A m \in Predecessors(mar, j) :
            m < j /\ mar.basic_blocks[m + 1].terminator = Goto(j)

\* an else-block n of an `if` without else: it has no statements and ends in
\* the Goto to a join block
EmptyElse(mar, n) ==
    /\ mar.basic_blocks[n + 1].statements = <<>>
    /\ mar.basic_blocks[n + 1].terminator.k = "Goto"
    /\ mar.basic_blocks[n + 1].terminator.target \in NamedBlocks(mar, "IfJoin")
    /\ mar.basic_blocks[n + 1].terminator.target > n

\* the nodes of one `if` of the older builder with Then node n: Else and
\* EndIf follow it, one node holds If(cond, then, else), and two nodes, the
\* ends of the arms, hold the Goto to EndIf
CfgIfShape(cfg, body, n) ==
    /\ n + 3 <= Len(cfg.nodes)
    /\ cfg.nodes[n + 2].name = "Else"
    /\ cfg.nodes[n + 3].name = "EndIf"
    /\ Cardinality(CfgPredecessors(cfg, n)) = 1
    /\ CfgPredecessors(cfg, n + 1) = CfgPredecessors(cfg, n)
    /\ \A p \in CfgPredecessors(cfg, n) :
            \E r \in 1..Len(cfg.nodes[p + 1].stmts) :
                /\ cfg.nodes[p + 1].stmts[r].k = "If"
                /\ cfg.nodes[p + 1].stmts[r].ex \in IfConditions(body)
                /\ cfg.nodes[p + 1].stmts[r].target = n
                /\ cfg.nodes[p + 1].stmts[r].target2 = n + 1
    /\ Cardinality(CfgPredecessors(cfg, n + 2)) = 2
    /\ \A m \in CfgPredecessors(cfg, n + 2) :
            \E r \in 1..Len(cfg.nodes[m + 1].stmts) :
                cfg.nodes[m + 1].stmts[r] = CfgStmtGoto(n + 2)
    /\ ~HasElseIn(body) => cfg.nodes[n + 2].stmts = <<CfgStmtGoto(n + 2)>>

\* C28: translating an `if` ends the predecessor with
\* If(cond, then-block, else-block), ends the final block of each arm with
\* Goto(join) for one and the same join block and goes on in the join block;
\* without an else the else-block has no statements and goes directly to the
\* join block
C28_IfBlocks ==
    /\ \A i \in 1..Len(built) :
            built[i].ok =>
                /\ Cardinality(NamedBlocks(built[i], "Then"))
                        = TranslatedKind(batch[i].body, FALSE, "if")
                /\ Cardinality(NamedBlocks(built[i], "Else"))
                        = TranslatedKind(batch[i].body, FALSE, "if")
                /\ Cardinality(NamedBlocks(built[i], "IfJoin"))
                        = TranslatedKind(batch[i].body, FALSE, "if")
                /\ \A n \in NamedBlocks(built[i], "Then") :
                        IfBranch(built[i], batch[i].body, n)
                /\ \A j \in NamedBlocks(built[i], "IfJoin") : IfJoin(built[i], j)
                /\ ~HasElseIn(batch[i].body) =>
                        \A n \in NamedBlocks(built[i], "Else") :
                            EmptyElse(built[i], n)
                /\ (DistinctMarkers(batch[i].body)
                        /\ CountKind(batch[i].body, "if") = 1) =>
                        \A q \in SeqsOf(batch[i].body) : \A k \in 1..Len(q) :
                            (q[k].k = "if" /\ k < Len(q) /\ q[k + 1].k = "nop"
                                /\ NamedBlocks(built[i], "IfJoin") # {}) =>
                                BlocksHolding(built[i], q[k + 1])
                                    = NamedBlocks(built[i], "IfJoin")
    /\ \A i \in 1..Len(cfgs) :
            cfgs[i].ok =>
                \A n \in 1..Len(cfgs[i].nodes) :
                    cfgs[i].nodes[n].name = "Then" =>
                        CfgIfShape(cfgs[i], batch[i].body, n - 1)

\* `f1(); if x { f2(); yield_!(1); } else { yield_!(2); f3(); } yield_!(x);`
\* is built by construct(): Start ends in If(x, Then, Else), the ends of the
\* two arms jump to the one join block, which holds the last suspension
C28_Witness ==
    /\ batch = <<Fn(BodyIfElse)>>
    /\ Len(built) = 1
    /\ built[1].ok
    /\ \E n \in NamedBlocks(built[1], "Then") : \E j \in NamedBlocks(built[1], "IfJoin") :
            /\ built[1].basic_blocks[START_BLOCK + 1].terminator
                    = TermIf(Var("x"), n, n + 1)
            /\ Cardinality(Predecessors(built[1], j)) = 2
            /\ built[1].basic_blocks[j + 1].terminator.k = "Suspend"
            /\ n + 1 \in SuspendedBy(built[1], Lit(2))

(***************************************************************************)
(* C29: the continuation block after a jump.                               *)
(***************************************************************************)
\* the graph of construct(): one continuation block per translated `break`
\* or `continue`, entered by no block; with distinguishable calls, a call
\* that directly follows a translated jump is in such a block
MarJumpEndsBlock(mar, body) ==
    /\ Cardinality(NamedBlocks(mar, "AfterBreakOrContinue"))
            = TranslatedKind(body, FALSE, "break")
                + TranslatedKind(body, FALSE, "continue")
    /\ \A n \in NamedBlocks(mar, "AfterBreakOrContinue") :
            Predecessors(mar, n) = {}
    /\ (DistinctMarkers(body) /\ NamedBlocks(mar, "AfterBreakOrContinue") # {}) =>
            \A q \in SeqsOf(body) : \A k \in 1..Len(q) :
                (q[k].k \in {"break", "continue"} /\ k < Len(q)
                    /\ q[k + 1].k = "nop") =>
                    /\ BlocksHolding(mar, q[k + 1]) # {}
                    /\ BlocksHolding(mar, q[k + 1])
                            \subseteq NamedBlocks(mar, "AfterBreakOrContinue")

\* the graph of the older builder: a Goto is the last entry of its node
CfgJumpEndsNode(cfg) ==
    \A n \in 1..Len(cfg.nodes) : \A p \in 1..Len(cfg.nodes[n].stmts) :
        cfg.nodes[n].stmts[p].k = "Goto" => p = Len(cfg.nodes[n].stmts)

\* C29: after the jump of a `break`, `continue` or `return` translation goes
\* on in a new continuation block: the statements that follow the jump are
\* never appended to the block the jump ended, and that block gets no further
\* control transfer
C29_JumpEndsBlock ==
    /\ \A i \in 1..Len(built) :
            built[i].ok => MarJumpEndsBlock(built[i], batch[i].body)
    /\ \A i \in 1..Len(cfgs) : cfgs[i].ok => CfgJumpEndsNode(cfgs[i])

\* the part of C29 that holds: construct() opens a continuation block after
\* every translated `break` and `continue`.  In the older builder the node
\* of `loop { yield_!(x); break; f1(); }` that holds the Goto of the break
\* holds f1() and the Goto back to the loop entry after it
C29_MarJumpEndsBlock ==
    /\ \A i \in 1..Len(built) :
            built[i].ok => MarJumpEndsBlock(built[i], batch[i].body)
    /\ \A i \in 1..Len(cfgs) :
            batch[i] = Fn(BodyYieldBreakNop) =>
                /\ cfgs[i].ok
                /\ \E n \in 1..Len(cfgs[i].nodes) :
                        /\ cfgs[i].nodes[n].name = "Yield"
                        /\ Len(cfgs[i].nodes[n].stmts) = 3
                        /\ cfgs[i].nodes[n].stmts[1].k = "Goto"
                        /\ cfgs[i].nodes[n].stmts[2] = CfgStmtStmt(Nop(1))
                        /\ cfgs[i].nodes[n].stmts[3].k = "Goto"

(***************************************************************************)
(* C30: the translation of `return`.                                       *)
(***************************************************************************)
\* the returns of a body, with and without a value
CountReturns(body) == CountKind(body, "ret") + CountKind(body, "retv")

\* the opaque statements of a graph that have a return in them
OpaqueReturns(mar) ==
    {st \in UNION {{mar.basic_blocks[n + 1].statements[k] :
                        k \in 1..Len(mar.basic_blocks[n + 1].statements)} :
                    n \in StateArms(mar)} :
        st.k = "Expr" /\ CountReturns(<<st.stmt>>) > 0}

\* C30: a `return` or `return expr` is translated: the scopes up to that of
\* the function are closed, the value is assigned to the result slot, the
\* current block ends in a Goto to the end block, and translation goes on in
\* a block opened after the return; so a function with returns is built, no
\* return is left as an opaque statement of a block, and each has its block
C30_ReturnTranslated ==
    \A i \in 1..Len(built) :
        (batch[i].is_fn /\ CountReturns(batch[i].body) > 0) =>
            /\ built[i].ok
            /\ OpaqueReturns(built[i]) = {}
            /\ Len(BlocksNamed(built[i], "AfterReturn"))
                    = CountReturns(batch[i].body)

\* what construct() does with a return: `return 5;` ends it with the error
\* `cannot return a value`, and `return;` is kept as an opaque statement of
\* the block it is met in
C30_ReturnKeptOrRejected ==
    \A i \in 1..Len(built) :
        /\ batch[i] = Fn(BodyReturnValue) =>
                ~built[i].ok /\ built[i].err = "cannot return a value"
        /\ (batch[i].is_fn /\ built[i].ok) =>
                /\ CountKind(batch[i].body, "retv") = 0
                /\ Cardinality(OpaqueReturns(built[i])) <= CountKind(batch[i].body, "ret")
                /\ CountKind(batch[i].body, "ret") > 0 => OpaqueReturns(built[i]) # {}

(***************************************************************************)
(* C31: a statement without transition.                                    *)
(***************************************************************************)
\* the builder of construct() when the first statement of the function body
\* is translated: the extent and the scope of the function, its parameter,
\* the extent and the scope of its block (extent 1, block START_BLOCK)
BodyBuilder(kind) ==
    LET b1 == StartNewExtent(NewBuilder(<<>>, kind))
        b3 == StartNewBlock(StartNewBlock(b1, "Start"), "End")
        b4 == StartNewExtent(AddDeclsFromPats(PushScope(b3, b1.ret), b1.ret, "x"))
    IN  Returning(PushScope(b4, b4.ret), START_BLOCK)

\* the extent of the block of the function: the one made after the extent of
\* the function
BodyExtent ==
    StartNewExtent(StartNewExtent(NewBuilder(<<>>, "Generator"))).ret

\* the builder when statement p of the function body is translated; its ret
\* is the current block
PrefixBuilder(item, p) ==
    BuilderStmts(BodyBuilder(item.kind), BodyExtent, START_BLOCK,
                 SubSeq(item.body, 1, p - 1), 1)

\* the builder when the first statement of the body of the loop s is
\* translated, b being the builder when s is: the loop scope of s is open
\* and the test of a `while` made; blk is the current block
LoopBodyBuilder(b, s) ==
    LET b1 == StartNewBlock(b, "Loop")
        b2 == StartNewBlock(b1, "LoopExit")
        b4 == PushLoopScope(Terminate(b2, b.ret, Goto(b1.ret)),
                            BodyExtent, s.name, b1.ret, b2.ret)
        b5 == ExprLoopTest(IF s.k = "while" THEN StartNewBlock(b4, "LoopBody")
                           ELSE Returning(b4, b1.ret),
                           b1.ret, b2.ret, s)
        b6 == StartNewExtent(b5)
    IN  [ext |-> b6.ret, b |-> Returning(PushScope(b6, b6.ret), b5.ret),
         entry |-> b1.ret, exit |-> b2.ret]

\* the loops of the function body that are translated block by block
TranslatedLoops(item) ==
    {p \in 1..Len(item.body) :
        IsLoopKind(item.body[p].k) /\ ContainsTransition(item.body[p], FALSE)}

\* the builder at position q of the body of the loop at position p of the
\* function body: before statement q, or at the end of the body; its ret
\* is the current block
LoopPlace(item, p, q) ==
    LET s  == item.body[p]
        lb == LoopBodyBuilder(PrefixBuilder(item, p), s)
    IN  [b |-> BuilderStmts(lb.b, lb.ext, lb.b.ret, SubSeq(s.body, 1, q - 1), 1),
         ext |-> lb.ext, s |-> IF q <= Len(s.body) THEN s.body[q] ELSE Nop(0),
         entry |-> lb.entry, exit |-> lb.exit, label |-> s.name, q |-> q]

LoopPlaces(item) ==
    UNION {{LoopPlace(item, p, q) : q \in 1..(Len(item.body[p].body) + 1)} :
            p \in TranslatedLoops(item)}

\* the places a statement is translated at that the check looks at: every
\* statement of the function body, and every statement of the body of a
\* loop of the function body that is translated block by block
Places(item) ==
    {[b |-> PrefixBuilder(item, p), ext |-> BodyExtent, s |-> item.body[p]] :
        p \in 1..Len(item.body)}
    \cup {[b |-> pl.b, ext |-> pl.ext, s |-> pl.s] :
            pl \in {l \in LoopPlaces(item) : l.s # Nop(0)}}

\* the places at which a statement without transition is translated
PlainPlaces(item) ==
    {pl \in Places(item) :
        pl.b.err = "" /\ ~BuilderContainsTransition(pl.b, pl.s)}

\* from b to b2 nothing changed but the statements of block `block`, which
\* got `added` at their end, and b2 returns `block`
OnlyAppended(b, b2, block, added) ==
    /\ b2.err = ""
    /\ b2.ret = block
    /\ Len(b2.basic_blocks) = Len(b.basic_blocks)
    /\ \A n \in 1..Len(b.basic_blocks) :
            /\ b2.basic_blocks[n].terminator = b.basic_blocks[n].terminator
            /\ b2.basic_blocks[n].decls = b.basic_blocks[n].decls
            /\ b2.basic_blocks[n].statements =
                    IF n = block + 1 THEN b.basic_blocks[n].statements \o added
                    ELSE b.basic_blocks[n].statements
    /\ b2.loop_scopes = b.loop_scopes

\* the aliases Builder::local binds for a `let` of the name ident: one when
\* a declaration of that name is live
AliasesOf(b, ident) ==
    IF FindDecl(b, ident) = -1 THEN <<>>
    ELSE <<StatementLet(ShadowedIdent(ident, FindDecl(b, ident)),
                        ExprStmt(Var(ident)))>>

\* what the translation of the statement s without transition adds to the
\* current block
PlainStatements(b, s) ==
    CASE s.k = "let" ->
            AliasesOf(b, s.name)
                \o <<StatementLet(s.name, IF s.body = <<>> THEN ExprStmt(s.ex)
                                          ELSE s.body[1])>>
      [] ExprIsEmpty(s) -> <<>>
      [] OTHER -> <<StatementExpr(s)>>

\* the older builder: from c to c2 nothing changed but the entries of node
\* `pred`, which got the opaque entry of s at their end
CfgOnlyAppended(c, c2, pred, s) ==
    /\ c2.err = ""
    /\ c2.ret = pred
    /\ c2.edges = c.edges
    /\ c2.unlabeled_loop_stack = c.unlabeled_loop_stack
    /\ c2.labeled_loop_map = c.labeled_loop_map
    /\ c2.nodes = [c.nodes EXCEPT ![pred + 1].stmts = Append(@, CfgStmtStmt(s))]

\* the older builder when statement p of the function body is translated
CfgPrefixBuilder(item, p) ==
    CfgBlockInner(CfgAddExit(CfgAddBb(CfgNew, "Entry", <<"x">>)),
                  SubSeq(item.body, 1, p - 1), 1, 0, <<"x">>)

\* the functions of the batch that have been expanded
Expanded == {batch[i] : i \in {j \in 1..Len(built) : batch[j].is_fn}}

CfgExpanded == {batch[i] : i \in {j \in 1..Len(cfgs) : batch[j].is_fn}}

\* C31 as stated: translating a statement that contains no transition
\* appends exactly one opaque statement to the current block, allocates no
\* block, sets no terminator, leaves the loop scopes unchanged and returns
\* the same block
C31_OneOpaqueStatement ==
    \A item \in Expanded : \A pl \in PlainPlaces(item) :
        OnlyAppended(pl.b, BuilderStmt(pl.b, pl.ext, pl.b.ret, pl.s), pl.b.ret,
                     <<StatementExpr(pl.s)>>)

\* C31, amended: translating a statement that contains no transition changes
\* nothing but the statements of the current block: it allocates no block,
\* sets no terminator, leaves the loop scopes unchanged and returns the same
\* block; an expression statement is appended as one opaque statement, an
\* empty block as nothing, and a `let` with initializer as a Let statement
\* after the alias of the declaration it shadows; two such expression
\* statements in a row are appended to the one block in their source order.
\* The older builder appends one opaque entry for every such statement.
C31_PlainStatementFrame ==
    /\ \A item \in Expanded : \A pl \in PlainPlaces(item) :
            pl.s.k # "letu" =>
                OnlyAppended(pl.b, BuilderStmt(pl.b, pl.ext, pl.b.ret, pl.s),
                             pl.b.ret, PlainStatements(pl.b, pl.s))
    /\ \A item \in Expanded : \A p \in 1..(Len(item.body) - 1) :
            LET b  == PrefixBuilder(item, p)
                s1 == item.body[p]
                s2 == item.body[p + 1]
            IN  (b.err = "" /\ ~ContainsTransition(s1, FALSE)
                    /\ ~ContainsTransition(s2, FALSE)
                    /\ {s1.k, s2.k} \cap {"let", "letu"} = {}
                    /\ ~ExprIsEmpty(s1) /\ ~ExprIsEmpty(s2)) =>
                    OnlyAppended(b, PrefixBuilder(item, p + 2), b.ret,
                                 <<StatementExpr(s1), StatementExpr(s2)>>)
    /\ \A item \in CfgExpanded : \A p \in 1..Len(item.body) :
            LET c == CfgPrefixBuilder(item, p)
            IN  (c.err = "" /\ ~CfgContainsTransitionExpr(c, item.body[p])) =>
                    CfgOnlyAppended(c, CfgStmtTop(c, c.ret, <<"x">>, item.body[p]),
                                    c.ret, item.body[p])

\* `f1(); {} f2(); yield_!(x);` is expanded: f1() and f2() are the two
\* statements of the Start block, in that order, and the empty block between
\* them left nothing
C31_Witness ==
    /\ batch = <<Fn(BodyEmptyBlock)>>
    /\ Len(built) = 1
    /\ built[1].ok
    /\ built[1].basic_blocks[START_BLOCK + 1].statements
            = <<StatementExpr(Nop(1)), StatementExpr(Nop(2))>>

(***************************************************************************)
(* C32: the stacks of loop scopes.                                         *)
(***************************************************************************)
\* the loop scope that in_loop_scope pushes for the loop a place lies in
ScopeOfPlace(pl) ==
    [extent |-> BodyExtent, label |-> pl.label, continue_block |-> pl.entry,
     break_block |-> pl.exit]

\* the scope of the older builder at statement p of a block that starts with
\* the names `scope`: the names of the `let`s before p are added
CfgScopeAt(scope, stmts, p) ==
    scope \o [i \in 1..Cardinality({j \in 1..(p - 1) : stmts[j].k \in {"let", "letu"}})
                |-> stmts[CHOOSE j \in 1..(p - 1) :
                            /\ stmts[j].k \in {"let", "letu"}
                            /\ Cardinality({h \in 1..j :
                                    stmts[h].k \in {"let", "letu"}}) = i].name]

\* the loops of the function body that the older builder translates
CfgTranslatedLoops(item) ==
    {p \in 1..Len(item.body) :
        item.body[p].k = "loop" /\ ContainsTransition(item.body[p], FALSE)}

\* the older builder at position q of the body of the loop at position p of
\* the function body, the loop pushed on the stacks
CfgLoopPlace(item, p, q) ==
    LET s     == item.body[p]
        c     == CfgPrefixBuilder(item, p)
        scope == CfgScopeAt(<<"x">>, item.body, p)
        c1    == CfgAddBb(c, "LoopEntry", scope)
        c2    == CfgAddBb(c1, "LoopExit", scope)
        c3    == CfgGoto(c2, c.ret, c1.ret)
        c4    == CfgPushLoop(c3, s.name, CfgLabelIndex(c3, s.name),
                             <<c1.ret, c2.ret>>)
    IN  [c |-> CfgBlockInner(c4, SubSeq(s.body, 1, q - 1), 1, c1.ret, scope),
         scope |-> CfgScopeAt(scope, s.body, q),
         s |-> IF q <= Len(s.body) THEN s.body[q] ELSE Nop(0),
         pair |-> <<c1.ret, c2.ret>>, label |-> s.name, q |-> q]

CfgLoopPlaces(item) ==
    UNION {{CfgLoopPlace(item, p, q) : q \in 1..(Len(item.body[p].body) + 1)} :
            p \in CfgTranslatedLoops(item)}

\* the statements of the function body and of the bodies of its translated
\* loops, with the older builder that translates them
CfgPlaces(item) ==
    {[c |-> CfgPrefixBuilder(item, p), scope |-> CfgScopeAt(<<"x">>, item.body, p),
      s |-> item.body[p]] : p \in 1..Len(item.body)}
    \cup {[c |-> pl.c, scope |-> pl.scope, s |-> pl.s] :
            pl \in {l \in CfgLoopPlaces(item) : l.s # Nop(0)}}

\* the stack of a label in labeled_loop_map; a label without entry has none
CfgLabelStack(c, label) ==
    IF CfgLabelIndex(c, label) = 0 THEN <<>>
    ELSE c.labeled_loop_map[CfgLabelIndex(c, label)].stack

\* the labels of the loops of the model's functions
LoopLabels == {"outer", "a", "missing"}

\* the two builders have the same loop stacks
SameLoopStacks(c, c2) ==
    /\ c2.unlabeled_loop_stack = c.unlabeled_loop_stack
    /\ \A label \in LoopLabels : CfgLabelStack(c2, label) = CfgLabelStack(c, label)

IsLoopLike(s) == IsLoopKind(s.k) \/ s.k \in {"for", "whilelet"}

RECURSIVE OwnJumps(_, _), JumpLabels(_)
\* the jumps of kind k in the statements ss that belong to the loop around
\* ss: those in the branches of an `if` or a `match` and in blocks are
\* counted, those in the body of a loop inside ss are not
OwnJumps(ss, k) ==
    IF ss = <<>> THEN 0
    ELSE (IF Head(ss).k = k THEN 1
          ELSE IF IsLoopLike(Head(ss)) THEN 0
          ELSE OwnJumps(Head(ss).body, k) + OwnJumps(Head(ss).els, k))
         + OwnJumps(Tail(ss), k)

\* the labels of the jumps in ss
JumpLabels(ss) ==
    IF ss = <<>> THEN {}
    ELSE (IF Head(ss).k \in {"break", "continue"} THEN {Head(ss).name} ELSE {})
            \cup JumpLabels(Head(ss).body) \cup JumpLabels(Head(ss).els)
            \cup JumpLabels(Tail(ss))

Unlabeled(ss) == JumpLabels(ss) \subseteq {NoLabel}

\* the blocks that from b to b2 got the terminator Goto(target)
NewGotos(b, b2, target) ==
    Cardinality({n \in 1..Len(b2.basic_blocks) :
        /\ b2.basic_blocks[n].terminator = Goto(target)
        /\ n <= Len(b.basic_blocks) => b.basic_blocks[n].terminator # Goto(target)})

\* the jumps that a rewritten loop adds to the loop it is written as
SugarBreaks(s) == IF s.k \in {"for", "whilelet"} THEN 1 ELSE 0

\* the Goto entries for target in the nodes of the older builder
CfgGotos(c, target) ==
    LET Count(n) == Cardinality({j \in 1..Len(c.nodes[n].stmts) :
                        c.nodes[n].stmts[j] = CfgStmtGoto(target)})
        F[n \in 0..Len(c.nodes)] == IF n = 0 THEN 0 ELSE F[n - 1] + Count(n)
    IN  F[Len(c.nodes)]

\* C33: a `break` without label jumps to the exit block of the innermost
\* loop around it and a `continue` without label to its entry block, also in
\* a branch of an `if` or in an arm of a `match` and also after a loop
\* inside that loop has been closed.  Wherever a statement of the body of a
\* translated loop is translated, the blocks that get a Goto to the exit of
\* that loop are as many as the breaks of the statement outside its own
\* loops, and the blocks that get a Goto to its entry as many as such
\* continues.  Wherever a loop is translated, its breaks (and the one of the
\* `None` arm of a `for`) are the Gotos to its own exit, and its continues,
\* the jump into the loop and the jump back the Gotos to its own entry.
\* The same holds of the Goto entries of the older builder.
C33_InnermostLoop ==
    /\ \A item \in Expanded :
        /\ \A pl \in LoopPlaces(item) :
            LET b2 == BuilderStmt(pl.b, pl.ext, pl.b.ret, pl.s)
            IN  (pl.s # Nop(0) /\ pl.b.err = "" /\ b2.err = ""
                    /\ Unlabeled(<<pl.s>>)) =>
                    /\ NewGotos(pl.b, b2, pl.exit) = OwnJumps(<<pl.s>>, "break")
                    /\ NewGotos(pl.b, b2, pl.entry) = OwnJumps(<<pl.s>>, "continue")
        /\ \A pl \in Places(item) :
            LET b2    == BuilderStmt(pl.b, pl.ext, pl.b.ret, pl.s)
                entry == StartNewBlock(pl.b, "Loop").ret
                exit  == entry + 1
            IN  (IsLoopLike(pl.s) /\ pl.b.err = "" /\ b2.err = ""
                    /\ BuilderContainsTransition(pl.b, pl.s)
                    /\ Unlabeled(pl.s.body)) =>
                    /\ b2.ret = exit
                    /\ NewGotos(pl.b, b2, exit)
                            = OwnJumps(pl.s.body, "break") + SugarBreaks(pl.s)
                    /\ NewGotos(pl.b, b2, entry)
                            = OwnJumps(pl.s.body, "continue") + 2
    /\ \A item \in CfgExpanded :
        /\ \A pl \in CfgLoopPlaces(item) :
            LET c2 == CfgStmtTop(pl.c, pl.c.ret, pl.scope, pl.s)
            IN  (pl.s # Nop(0) /\ pl.c.err = "" /\ c2.err = ""
                    /\ Unlabeled(<<pl.s>>)) =>
                    /\ CfgGotos(c2, pl.pair[2]) - CfgGotos(pl.c, pl.pair[2])
                            = OwnJumps(<<pl.s>>, "break")
                    /\ CfgGotos(c2, pl.pair[1]) - CfgGotos(pl.c, pl.pair[1])
                            = OwnJumps(<<pl.s>>, "continue")
        /\ \A pl \in CfgPlaces(item) :
            LET c2    == CfgStmtTop(pl.c, pl.c.ret, pl.scope, pl.s)
                entry == CfgAddBb(pl.c, "LoopEntry", pl.scope).ret
                exit  == entry + 1
            IN  (pl.s.k = "loop" /\ pl.c.err = "" /\ c2.err = ""
                    /\ CfgContainsTransitionExpr(pl.c, pl.s)
                    /\ Unlabeled(pl.s.body)) =>
                    /\ c2.ret = exit
                    /\ CfgGotos(c2, exit) = OwnJumps(pl.s.body, "break")
                    /\ CfgGotos(c2, entry) = OwnJumps(pl.s.body, "continue") + 2

\* C33 witness: in `loop { f1(); loop { yield_!(1); break; } yield_!(2);
\* if x { x -= 1; continue; } break; } yield_!(3);` called with 2 the
\* `continue` after the closed inner loop went to the head of the outer
\* loop and the `break` of the inner loop left the inner loop only
C33_Witness ==
    /\ batch = <<Fn(BodyNestedJumps)>>
    /\ Len(built) = 1
    /\ Len(cfgs) = 1
    /\ TheCfg.ok
    /\ \E pl \in LoopPlaces(batch[1]) :
            /\ pl.q = 4
            /\ pl.s.k = "if"
            /\ pl.b.err = ""
            /\ NewGotos(pl.b, BuilderStmt(pl.b, pl.ext, pl.b.ret, pl.s), pl.entry) = 1
    /\ \E pl \in LoopPlaces(batch[1]) :
            /\ pl.q = 2
            /\ pl.s.k = "loop"
            /\ NewGotos(pl.b, BuilderStmt(pl.b, pl.ext, pl.b.ret, pl.s), pl.exit) = 0
            /\ NewGotos(pl.b, BuilderStmt(pl.b, pl.ext, pl.b.ret, pl.s),
                        StartNewBlock(pl.b, "Loop").ret + 1) = 1
    /\ wrapper.live
    /\ wrapper.arg = 2
    /\ outputs = <<[some |-> TRUE, val |-> 1], [some |-> TRUE, val |-> 2],
                   [some |-> TRUE, val |-> 1], [some |-> TRUE, val |-> 2]>>

(***************************************************************************)
(* C34: the drops are taken out of the finished graph.                     *)
(***************************************************************************)
\* the builder of construct() when the drops are about to be removed: the
\* statements of the body are translated, the scopes of the body and of
\* the function popped, the last block and the End block terminated
BeforeRetain(item) ==
    LET b7 == AstBlockEnd(PrefixBuilder(item, Len(item.body) + 1), BodyExtent)
    IN  Terminate(Terminate(PopScope(b7, 0, b7.ret), b7.ret, Goto(END_BLOCK)),
                  END_BLOCK, TermReturn)

\* the positions of the statements that are no drops, in order
KeptPositions(statements) ==
    LET keep == {i \in 1..Len(statements) : statements[i].k # "Drop"}
    IN  [j \in 1..Cardinality(keep) |->
            CHOOSE i \in keep : Cardinality({h \in keep : h <= i}) = j]

\* the functions of the batch that construct() made a graph of, with it
Finished ==
    {[item |-> batch[i], mar |-> built[i]] :
        i \in {j \in 1..Len(built) : batch[j].is_fn /\ built[j].ok}}

\* C34: no block of the graph that construct() returns holds a Drop
\* statement; the graph has the blocks the builder had before the removal,
\* each with its name, declarations and terminator unchanged and with the
\* statements that are no drops in the order they had.
C34_NoDropLeft ==
    \A f \in Finished :
        LET before == BeforeRetain(f.item)
        IN  /\ before.err = ""
            /\ Len(f.mar.basic_blocks) = Len(before.basic_blocks)
            /\ \A n \in 1..Len(before.basic_blocks) :
                LET old  == before.basic_blocks[n]
                    new  == f.mar.basic_blocks[n]
                    kept == KeptPositions(old.statements)
                IN  /\ \A j \in 1..Len(new.statements) :
                            new.statements[j].k # "Drop"
                    /\ new.statements = [j \in 1..Len(kept) |-> old.statements[kept[j]]]
                    /\ new.terminator = old.terminator
                    /\ new.name = old.name
                    /\ new.decls = old.decls

\* C34 witness: a graph is finished whose builder held, in one block, a
\* drop between two statements that stay: the let of a name and, behind the
\* drop of the declaration that shadowed it, the statement that restores it
C34_Witness ==
    \E f \in Finished :
        \E n \in 1..Len(f.mar.basic_blocks) :
            LET old == BeforeRetain(f.item).basic_blocks[n].statements
            IN  /\ \E i, j, h \in 1..Len(old) :
                        /\ i < j /\ j < h
                        /\ old[i].k = "Let"
                        /\ old[j].k = "Drop"
                        /\ old[h].k = "Unshadow"
                /\ Len(f.mar.basic_blocks[n].statements) < Len(old)
                /\ \E j \in 1..Len(f.mar.basic_blocks[n].statements) :
                        f.mar.basic_blocks[n].statements[j].k = "Unshadow"

(***************************************************************************)
(* C35: the translation of `for`.                                          *)
(***************************************************************************)
IntoIter(e) == CallExpr("::std::iter::IntoIterator::into_iter", e)

IterNext == MethodCall("__stateful_iter", "next")

\* the statements of the blocks of b that bind a converted iterable
ConversionsIn(b) ==
    {<<n, j>> \in (1..Len(b.basic_blocks)) \X (1..MaxSize + 8) :
        /\ j <= Len(b.basic_blocks[n].statements)
        /\ b.basic_blocks[n].statements[j].k = "Let"
        /\ b.basic_blocks[n].statements[j].stmt.ex.f = IntoIter(Lit(0)).f}

\* the blocks of b that end in a match on the next value of the iterator
NextCallsIn(b) ==
    {n \in 1..Len(b.basic_blocks) :
        /\ b.basic_blocks[n].terminator.k = "Match"
        /\ b.basic_blocks[n].terminator.ex = IterNext}

\* the `for` loops the builder translates block by block, as places
ForPlaces(item) ==
    {pl \in Places(item) :
        pl.s.k = "for" /\ pl.b.err = "" /\ BuilderContainsTransition(pl.b, pl.s)}

\* C35: a `for pat in iterable { body }` that contains a transition is
\* rewritten as a block of two statements: the let of the hidden mutable
\* local `__stateful_iter` to the converted iterable, and a loop with the
\* label of the `for` whose body is one match on `__stateful_iter.next()`
\* with the arms `Some(pat) => body` and `None => break`.  In the graph the
\* current block gets the let and jumps to the loop entry; the loop entry
\* holds no statement and ends in the match, the block of the `None` arm
\* jumps to the exit of this loop, the translation goes on in that exit; a
\* `for` without another `for` inside adds one conversion and one match on
\* next(), and the conversion is not in a block of the loop.  The machine
\* of a body with `for` returns the values of the direct execution, in
\* which the iterable is converted once and yields one value per turn.
C35_ForTranslation ==
    /\ \A item \in Expanded : \A pl \in ForPlaces(item) :
        LET d     == DesugarExpr(pl.s)
            b2    == BuilderStmt(pl.b, pl.ext, pl.b.ret, pl.s)
            cur   == pl.b.ret
            entry == StartNewBlock(pl.b, "Loop").ret
            exit  == entry + 1
        IN  /\ d.k = "block"
            /\ Len(d.body) = 2
            /\ d.body[1] = LetMut("__stateful_iter", IntoIter(pl.s.ex))
            /\ d.body[1].mut
            /\ d.body[2].k = "loop"
            /\ d.body[2].name = pl.s.name
            /\ Len(d.body[2].body) = 1
            /\ d.body[2].body[1].k = "match"
            /\ d.body[2].body[1].ex = IterNext
            /\ d.body[2].body[1].pat
                    = "::std::option::Option::Some(" \o pl.s.pat \o ")"
            /\ d.body[2].body[1].body = pl.s.body
            /\ d.body[2].body[1].pat2 = "::std::option::Option::None"
            /\ d.body[2].body[1].els = <<Break(NoLabel)>>
            /\ b2.err = "" =>
                /\ BlockData(b2, cur).statements
                        = BlockData(pl.b, cur).statements
                            \o AliasesOf(pl.b, "__stateful_iter")
                            \o <<StatementLet("__stateful_iter",
                                              ExprStmt(IntoIter(pl.s.ex)))>>
                /\ BlockData(b2, cur).terminator = Goto(entry)
                /\ BlockData(b2, entry).statements = <<>>
                /\ BlockData(b2, entry).terminator
                        = TermMatch(IterNext,
                                    "::std::option::Option::Some(" \o pl.s.pat \o ")",
                                    entry + 2, "::std::option::Option::None",
                                    entry + 3)
                /\ BlockData(b2, entry + 3).statements = <<>>
                /\ BlockData(b2, entry + 3).terminator = Goto(exit)
                /\ b2.ret = exit
                /\ CountKind(pl.s.body, "for") = 0 =>
                    /\ ConversionsIn(b2) \ ConversionsIn(pl.b)
                            = {<<cur + 1, Len(BlockData(b2, cur).statements)>>}
                    /\ NextCallsIn(b2) \ NextCallsIn(pl.b) = {entry + 1}
    /\ (Len(built) = Len(batch) /\ CountKind(DriverBody, "for") > 0
            /\ wrapper.live /\ outputs # <<>>) =>
            /\ TheMar.ok
            /\ wrapper.status = "ready"
            /\ outputs = ExpectedOutputs(
                            Direct(DriverBody, wrapper.arg, Len(outputs)),
                            Len(outputs))

\* C35 witness: `for p in x { yield_!(1); } yield_!(9);` called with 2 has
\* returned 1, 1, 9 and then no value: two turns for an iterable of two
C35_Witness ==
    /\ batch = <<Fn(BodyFor)>>
    /\ ForPlaces(batch[1]) # {}
    /\ wrapper.live
    /\ wrapper.arg = 2
    /\ outputs = <<[some |-> TRUE, val |-> 1], [some |-> TRUE, val |-> 1],
                   [some |-> TRUE, val |-> 9], [some |-> FALSE, val |-> 0]>>

(***************************************************************************)
(* C36: the alias of a shadowed declaration.                               *)
(***************************************************************************)
\* the alias statement of declaration k of the graph mar
AliasLet(mar, k) ==
    StatementLet(ShadowedIdent(mar.var_decls[k + 1].ident, k),
                 ExprStmt(Var(mar.var_decls[k + 1].ident)))

\* the alias statements of the graph mar: declaration, block and position
AliasesIn(mar) ==
    {a \in (0..(Len(mar.var_decls) - 1)) \X (1..Len(mar.basic_blocks))
                \X (1..MaxSize + 8) :
        /\ a[3] <= Len(mar.basic_blocks[a[2]].statements)
        /\ mar.basic_blocks[a[2]].statements[a[3]] = AliasLet(mar, a[1])}

\* the places at which a `let` with initializer is translated
LetPlaces(item) ==
    {pl \in Places(item) : pl.s.k = "let" /\ pl.b.err = ""}

\* C36: where a `let` of a name is translated while a declaration of that
\* name is live, the block the translation ends in gets as its last two
\* statements the alias `let <name>_shadowed_<index of the live
\* declaration> = <name>` and then the Let of the new binding.  In every finished graph an alias
\* statement is directly followed, in its block, by the Let of the name it
\* saves, and the aliases of two declarations have two names.  When the
\* machine suspends, the field of each shadowed binding goes by its alias
\* and holds the value the binding had before it was shadowed.
C36_AliasBeforeLet ==
    /\ \A item \in Expanded : \A pl \in LetPlaces(item) :
        LET b2   == BuilderStmt(pl.b, pl.ext, pl.b.ret, pl.s)
            old  == FindDecl(pl.b, pl.s.name)
            st   == BlockData(b2, b2.ret).statements
            was  == IF b2.ret = pl.b.ret THEN Len(BlockData(pl.b, pl.b.ret).statements)
                    ELSE 0
        IN  b2.err = "" =>
                /\ Len(st) >= 1
                /\ st[Len(st)].k = "Let"
                /\ st[Len(st)].pat = pl.s.name
                /\ old # -1 =>
                    /\ DeclIdent(pl.b, old) = pl.s.name
                    /\ Len(st) >= was + 2
                    /\ st[Len(st) - 1]
                            = StatementLet(ShadowedIdent(pl.s.name, old),
                                           ExprStmt(Var(pl.s.name)))
    /\ \A f \in Finished :
        /\ \A a \in AliasesIn(f.mar) :
            LET st == f.mar.basic_blocks[a[2]].statements
            IN  /\ a[3] < Len(st)
                /\ st[a[3] + 1].k = "Let"
                /\ st[a[3] + 1].pat = f.mar.var_decls[a[1] + 1].ident
        /\ \A a1, a2 \in AliasesIn(f.mar) :
            a1[1] # a2[1] =>
                f.mar.basic_blocks[a1[2]].statements[a1[3]].pat
                    # f.mar.basic_blocks[a2[2]].statements[a2[3]].pat
    /\ (Len(built) = Len(batch) /\ wrapper.live /\ last.outcome = "value"
            /\ WellFormed(DriverBody) /\ NoReturnIn(DriverBody)) =>
            LET d     == Direct(DriverBody, wrapper.arg, Len(outputs))
                decls == TheMar.basic_blocks[wrapper.state.block + 1].decls
            IN  \A i \in 1..Len(d.env) :
                    (\E j \in (i + 1)..Len(d.env) : d.env[j].name = d.env[i].name) =>
                        /\ i <= Len(wrapper.state.fields)
                        /\ wrapper.state.fields[i].name
                                = ShadowedIdent(d.env[i].name, decls[i].decl)
                        /\ wrapper.state.fields[i].val = d.env[i].val

\* C36 witness: `let x = 1; yield_!(x); let x = 2; yield_!(x);` has
\* suspended for the second time: the graph holds the aliases of the
\* parameter and of the first binding, each in front of the Let that
\* shadows it, and the state holds 1 under the alias of the first binding
C36_Witness ==
    /\ batch = <<Fn(BodyShadow)>>
    /\ Len(built) = 1
    /\ Cardinality({a[1] : a \in AliasesIn(TheMar)}) = 2
    /\ \E pl \in LetPlaces(batch[1]) : FindDecl(pl.b, pl.s.name) = 1
    /\ wrapper.live
    /\ Len(outputs) = 2
    /\ last.outcome = "value"
    /\ wrapper.state.fields[2] = [name |-> ShadowedIdent("x", 1), val |-> 1]

(***************************************************************************)
(* C37: the live declarations of a block follow the lexical scopes.        *)
(***************************************************************************)
\* the declarations a block of the builder carries
BlockDecls(b, n) ==
    {b.basic_blocks[n].decls[i].decl : i \in 1..Len(b.basic_blocks[n].decls)}

\* the declarations that are live in the builder
LiveDecls(b) == {FindLiveDecls(b)[i].decl : i \in 1..Len(FindLiveDecls(b))}

\* p is a prefix of q
IsPrefix(p, q) == Len(p) <= Len(q) /\ SubSeq(q, 1, Len(p)) = p

\* C37: where a statement is translated, every block created during its
\* translation carries every declaration that was live before it (entering
\* a scope removes nothing); the join block of an `if` and the exit block
\* of a `loop` or `while`, also as the initializer of a `let`, carries no
\* declaration made during the translation, and after it the live
\* declarations are those live before it, plus the one of the statement
\* when it is a `let` (closing a scope adds nothing and a declaration made
\* inside is not live after it, the one of a `let` is live in the blocks
\* the statements after it create).  In the older builder every node created during the translation of a statement
\* carries the names of the scope the statement is in, in front of those
\* declared inside, and the node the translation ends in, when it is a new
\* one, carries exactly the names of that scope.
C37_LexicalLiveness ==
    /\ \A item \in Expanded : \A pl \in Places(item) :
        LET b2    == BuilderStmt(pl.b, pl.ext, pl.b.ret, pl.s)
            made  == Len(pl.b.var_decls)..(Len(b2.var_decls) - 1)
            fresh == (Len(pl.b.basic_blocks) + 1)..Len(b2.basic_blocks)
        IN  (pl.b.err = "" /\ b2.err = "") =>
                /\ \A n \in fresh : LiveDecls(pl.b) \subseteq BlockDecls(b2, n)
                /\ (/\ b2.ret + 1 \in fresh
                    /\ pl.s.k \in {"if", "loop", "while", "let"}
                    /\ BlockData(b2, b2.ret).name \in {"IfJoin", "LoopExit"}) =>
                        BlockDecls(b2, b2.ret + 1) \cap made = {}
                /\ LiveDecls(b2) = LiveDecls(pl.b)
                        \cup (IF pl.s.k = "let" THEN {Len(b2.var_decls) - 1} ELSE {})
    /\ \A item \in CfgExpanded : \A pl \in CfgPlaces(item) :
        LET c2 == CfgStmtTop(pl.c, pl.c.ret, pl.scope, pl.s)
        IN  (pl.c.err = "" /\ c2.err = "") =>
                /\ \A n \in (Len(pl.c.nodes) + 1)..Len(c2.nodes) :
                        c2.nodes[n].kind = "BasicBlock" =>
                            IsPrefix(pl.scope, c2.nodes[n].decls)
                /\ c2.ret + 1 > Len(pl.c.nodes) => c2.nodes[c2.ret + 1].decls = pl.scope

\* `let y = if x { let z = 1; yield_!(z); f1(); };` has been translated: the
\* join block of the `if` carries the declaration of z
C37_JoinCarriesArmLocal ==
    /\ batch = <<Fn(BodyLetIf)>>
    /\ Len(built) = 1
    /\ built[1].ok
    /\ \E n \in 1..Len(TheMar.basic_blocks) :
        /\ TheMar.basic_blocks[n].name = "IfJoin"
        /\ \E i \in 1..Len(TheMar.basic_blocks[n].decls) :
                TheMar.basic_blocks[n].decls[i].ident = "z"

(***************************************************************************)
(* C38: a `let` whose initializer contains a transition.                   *)
(***************************************************************************)
\* the panics of Builder::local when it looks for the initializer
LocalPanics == {"called Option::unwrap() on a None value", "something unexpected"}

\* the places at which a `let` is translated whose initializer is
\* translated without error and ends in another block than it started in
LetTransitionPlaces(item) ==
    {pl \in Places(item) :
        /\ pl.s.k = "let"
        /\ pl.s.body # <<>>
        /\ pl.b.err = ""
        /\ BuilderExpr(pl.b, pl.ext, pl.b.ret, pl.s.body[1]).err = ""
        /\ BuilderExpr(pl.b, pl.ext, pl.b.ret, pl.s.body[1]).ret # pl.b.ret}

\* C38: where a `let` is translated whose initializer ends in another block
\* than it started in, local() does not panic for want of an opaque
\* statement in the block before the final one, and when it succeeds the
\* final block ends with the Let of the pattern and no statement was taken
\* out of the block before the final one, which holds the statements of the
\* body of the initializer
C38_LetInitializer ==
    \A item \in Expanded : \A pl \in LetTransitionPlaces(item) :
        LET b1 == BuilderExpr(pl.b, pl.ext, pl.b.ret, pl.s.body[1])
            b2 == BuilderStmt(pl.b, pl.ext, pl.b.ret, pl.s)
            st == BlockData(b2, b2.ret).statements
        IN  /\ b2.err \notin LocalPanics
            /\ b2.err = "" =>
                /\ b2.ret = b1.ret
                /\ Len(st) >= 1
                /\ st[Len(st)].k = "Let"
                /\ st[Len(st)].pat = pl.s.name
                /\ BlockData(b2, b1.ret - 1).statements
                        = BlockData(b1, b1.ret - 1).statements

\* `let y = loop { yield_!(1); break; };` has been translated: local() found
\* no opaque statement in the block before the exit block of the loop and
\* construct() ended in the panic of `unwrap()`
C38_LocalPanics ==
    /\ batch = <<Fn(BodyLetLoopYield)>>
    /\ Len(built) = 1
    /\ ~built[1].ok
    /\ built[1].err = "called Option::unwrap() on a None value"
    /\ LetTransitionPlaces(batch[1]) # {}

(***************************************************************************)
(* C39: the state the wrapper hands to the closure and keeps.              *)
(***************************************************************************)
RECURSIVE StateAfter(_, _, _)
\* the state the closure returns in the n-th of n calls that each get the
\* state the call before returned, the first one the start state
StateAfter(mar, arg, n) ==
    IF n = 0 THEN StartState(mar, arg)
    ELSE Closure(mar, StateAfter(mar, arg, n - 1)).state

\* C39: after n completed invocations the stored state is the state the
\* closure returned in the n-th, the closure having been given the start
\* state in the first invocation and in every later one the state it
\* returned in the one before; the i-th value handed out is the value the
\* closure returned with the i-th state; the stored state is the
\* placeholder only if the closure returned it or the invocation did not
\* complete
C39_StateThreaded ==
    (Len(built) = Len(batch) /\ wrapper.live) =>
        LET n == Len(outputs)
        IN  /\ \A i \in 1..n :
                LET res == Closure(TheMar, StateAfter(TheMar, wrapper.arg, i - 1))
                IN  /\ res.outcome \notin {"hung", "broken"}
                    /\ outputs[i] = ReturnedValue(res)
            /\ wrapper.status = "ready" =>
                /\ wrapper.state = StateAfter(TheMar, wrapper.arg, n)
                /\ n > 0 =>
                    /\ last = Closure(TheMar, StateAfter(TheMar, wrapper.arg, n - 1))
                    /\ wrapper.state = last.state
                /\ wrapper.state = DefaultState => (n > 0 /\ last.state = DefaultState)
            /\ wrapper.status # "ready" =>
                /\ last = Closure(TheMar, StateAfter(TheMar, wrapper.arg, n))
                /\ last.outcome \in {"hung", "broken"}

\* C39 witness: `let x = 1; yield_!(x); let x = 2; yield_!(x);` after the
\* second invocation: the stored state is the one the second call returned,
\* which is neither the start state nor the state the first call returned
C39_Witness ==
    /\ batch = <<Fn(BodyShadow)>>
    /\ Len(built) = 1
    /\ wrapper.live
    /\ wrapper.status = "ready"
    /\ Len(outputs) = 2
    /\ wrapper.state = last.state
    /\ wrapper.state # StateAfter(TheMar, wrapper.arg, 1)
    /\ wrapper.state # StartState(TheMar, wrapper.arg)
    /\ wrapper.state # DefaultState

(***************************************************************************)
(* C40: the hidden iterators of nested `for` loops.                        *)
(***************************************************************************)
\* the name of the hidden iterator of a `for`
IterName == "__stateful_iter"

\* a `for` whose body holds a `for`, both with a suspension point
NestedFor(body) ==
    \E p \in 1..Len(body) :
        /\ body[p].k = "for"
        /\ \E q \in 1..Len(body[p].body) :
            /\ body[p].body[q].k = "for"
            /\ CountKind(body[p].body[q].body, "yield") > 0

HasField(state, name) ==
    \E i \in 1..Len(state.fields) : state.fields[i].name = name

FieldVal(state, name) ==
    state.fields[CHOOSE i \in 1..Len(state.fields) : state.fields[i].name = name].val

\* the invocation whose arms are `path` left an inner `for`: it ran a block
\* in which the iterator of the outer one gets its name back
InnerLeft(mar, path) ==
    \E i \in 1..Len(path) :
        \E j \in 1..Len(mar.basic_blocks[path[i] + 1].statements) :
            /\ mar.basic_blocks[path[i] + 1].statements[j].k = "Unshadow"
            /\ mar.basic_blocks[path[i] + 1].statements[j].pat = IterName

\* C40: in the graph of a function no block carries two declarations under
\* one name, and of two hidden iterators a block carries the outer one goes
\* by its alias.  When the machine of a function with nested `for` loops
\* has suspended inside the inner loop, the state holds the iterator of the
\* outer loop under its alias next to the one of the inner loop: it is
\* what it was at the suspension before when the invocation stayed inside
\* the inner loop, and one value further when the invocation left the
\* inner loop and the outer loop took its next value; the values handed
\* out are those of the direct execution, turn for turn of the outer loop.
C40_OuterIteratorSurvives ==
    /\ \A f \in Finished : \A n \in 1..Len(f.mar.basic_blocks) :
        LET decls == f.mar.basic_blocks[n].decls
        IN  \A i, j \in 1..Len(decls) :
                i < j =>
                    /\ decls[i].ident # decls[j].ident
                    /\ (/\ f.mar.var_decls[decls[i].decl + 1].ident = IterName
                        /\ f.mar.var_decls[decls[j].decl + 1].ident = IterName) =>
                            decls[i].ident = ShadowedIdent(IterName, decls[i].decl)
    /\ (Len(built) = Len(batch) /\ NestedFor(DriverBody) /\ wrapper.live) =>
        LET n    == Len(outputs)
            prev == StateAfter(TheMar, wrapper.arg, n - 1)
            cur  == wrapper.state
        IN  /\ TheMar.ok
            /\ wrapper.status = "ready"
            /\ outputs = ExpectedOutputs(Direct(DriverBody, wrapper.arg, n), n)
            /\ (outputs # <<>> /\ last.outcome = "value") =>
                \E k \in 0..(Len(TheMar.var_decls) - 1) :
                    LET a == ShadowedIdent(IterName, k)
                    IN  /\ HasField(cur, a)
                        /\ HasField(cur, IterName)
                        /\ a # IterName
                        /\ (HasField(prev, a) /\ ~InnerLeft(TheMar, last.path)) =>
                                /\ FieldVal(cur, a) = FieldVal(prev, a)
                                /\ FieldVal(cur, IterName) = FieldVal(prev, IterName) - 1
                        /\ (HasField(prev, a) /\ InnerLeft(TheMar, last.path)) =>
                                FieldVal(cur, a) = FieldVal(prev, a) - 1

\* C40 witness: `for p in x { for q in 2 { yield_!(1); } }` called with 2
\* has suspended four times; the third invocation left the inner loop and
\* came back into it, and the iterator of the outer loop, which was at 1
\* during the first turn, is at 0 while the inner one has been made anew
C40_Witness ==
    /\ batch = <<Fn(BodyNestedFor)>>
    /\ Len(built) = 1
    /\ wrapper.live
    /\ wrapper.arg = 2
    /\ Len(outputs) = 3
    /\ last.outcome = "value"
    /\ InnerLeft(TheMar, last.path)
    /\ FieldVal(StateAfter(TheMar, 2, 2), ShadowedIdent(IterName, 1)) = 1
    /\ FieldVal(wrapper.state, ShadowedIdent(IterName, 1)) = 0
    /\ FieldVal(wrapper.state, IterName) = 1

====
